---- MODULE Spec2Model ----
(***************************************************************************)
(* virtme-ng-init: the boot orchestrator that runs as PID 1 of a virtme-ng *)
(* guest (src/virtme_ng_init/src/main.rs, utils.rs).                      *)
(*                                                                         *)
(* Two specifications share the variables below:                          *)
(*   Spec        the boot sequence of main(), its service threads and the  *)
(*               session / script / power-off paths;                      *)
(*   SpecExtract extract_user_script() applied to synthetic boot-parameter *)
(*               strings.                                                  *)
(*                                                                         *)
(* Text that the program scans byte by byte (the kernel command line, the  *)
(* base64 payload, the decoded script) is a sequence of byte values.       *)
(* Names of environment variables and paths are TLA+ strings.              *)
(***************************************************************************)
EXTENDS Integers, Sequences, FiniteSets, TLC

VARIABLES
    pc,          \* position of the main thread in main() and its callees
    exitStatus,  \* status passed to exit(), "none" while running
    env,         \* process environment: sequence of <<name, value>> (environ order)
    cmdline,     \* content of /proc/cmdline (bytes)
    exe,         \* path of the running executable (/proc/self/exe)
    mountLog,    \* every mount(2) attempt so far, in order
    lastMount,   \* target and result of the latest mount attempt
    procMounted, \* whether a proc filesystem is mounted on /proc
    klog,        \* lines logged by the program, in order, but for do_mount's
    task,        \* state of each spawned thread
    handles,     \* join handles collected by main(), in join order
    netdevs,     \* network devices found by get_network_devices()
    virtio_net,  \* what get_network_devices() last found of the virtio_net directory
    mkdirs,      \* do_mkdir calls so far, each with the number of mounts attempted before it
    consdev,     \* console device chosen by get_active_console()
    opened,      \* paths opened for the session (console, serial ports)
    ports,       \* entries present under /dev/virtio-ports
    dev,         \* what lies at each remapped /dev path
    scriptFile,  \* content of USER_SCRIPT, NoFile if not created
    launched,    \* user-facing processes started so far, with their environment
    retFile,     \* outcome of channelling the exit code through /dev/virtme.ret
    power,       \* progress of poweroff(): "on", "synced", "requested"
    clears,      \* number of completed clear_virtme_envs() calls
    loopi,       \* index of the main thread's current for loop
    xin,         \* SpecExtract: the boot-parameter string under test
    xout         \* SpecExtract: result of extract_user_script(xin)

vars == <<pc, exitStatus, env, cmdline, exe, mountLog, lastMount, procMounted, klog, task, handles,
          netdevs, virtio_net, mkdirs, consdev, opened, ports, dev, scriptFile,
          launched, retFile, power, clears, loopi, xin, xout>>

bootVars == <<pc, exitStatus, env, cmdline, exe, mountLog, lastMount, procMounted, klog, task, handles,
              netdevs, virtio_net, mkdirs, consdev, opened, ports, dev,
              scriptFile, launched, retFile, power, clears, loopi>>

-----------------------------------------------------------------------------
(* Option<T>: None is the empty tuple, Some(v) the tuple <<v>>. *)
None == <<>>

Some(v) == <<v>>

-----------------------------------------------------------------------------
(* Byte strings. *)

\* Printable ASCII from 0x20 to 0x5f and from 0x61 to 0x7e; the grave accent
\* (0x60) is written as a byte value, see Grave.
AsciiLow == " !\"#$%&'()*+,-./0123456789:;<=>?@ABCDEFGHIJKLMNOPQRSTUVWXYZ[\\]^_"

AsciiHigh == "abcdefghijklmnopqrstuvwxyz{|}~"

Ord(c) ==
    IF \E i \in 1..Len(AsciiLow) : SubSeq(AsciiLow, i, i) = c
    THEN 31 + (CHOOSE i \in 1..Len(AsciiLow) : SubSeq(AsciiLow, i, i) = c)
    ELSE 96 + (CHOOSE i \in 1..Len(AsciiHigh) : SubSeq(AsciiHigh, i, i) = c)

RECURSIVE Bytes(_)
Bytes(s) ==
    IF Len(s) = 0 THEN <<>>
    ELSE <<Ord(SubSeq(s, 1, 1))>> \o Bytes(SubSeq(s, 2, Len(s)))

Grave == <<96>>

\* str::starts_with on byte strings
BStartsWith(s, pat) ==
    /\ Len(s) >= Len(pat)
    /\ SubSeq(s, 1, Len(pat)) = pat

\* index of the first occurrence of pat in s, 0 if there is none
FindFirst(s, pat) ==
    LET hits == {i \in 1..(Len(s) - Len(pat) + 1) :
                    SubSeq(s, i, i + Len(pat) - 1) = pat}
    IN  IF hits = {} THEN 0
        ELSE CHOOSE i \in hits : \A j \in hits : i <= j

\* str::contains
Contains(s, pat) == FindFirst(s, pat) # 0

\* str::rsplit_once, the split around the last match: what SplitOnce must
\* not be for the round trip of extract_user_script
SplitOnceLast(s, pat) ==
    LET occ == {i \in 1..(Len(s) - Len(pat) + 1) :
                   SubSeq(s, i, i + Len(pat) - 1) = pat}
    IN  IF occ = {} THEN None
        ELSE LET i == CHOOSE k \in occ : \A j \in occ : j <= k
             IN  Some(<<SubSeq(s, 1, i - 1), SubSeq(s, i + Len(pat), Len(s))>>)

\* str::split_once: None, or Some(<<before, after>>) around the first match
SplitOnce(s, pat) ==
    LET i == FindFirst(s, pat)
    IN  IF i = 0 THEN None
        ELSE Some(<<SubSeq(s, 1, i - 1), SubSeq(s, i + Len(pat), Len(s))>>)

-----------------------------------------------------------------------------
(* base64, STANDARD engine: alphabet A-Z a-z 0-9 + /, canonical padding. *)

B64Char(v) ==
    IF v < 26 THEN 65 + v
    ELSE IF v < 52 THEN 97 + (v - 26)
    ELSE IF v < 62 THEN 48 + (v - 52)
    ELSE IF v = 62 THEN 43
    ELSE 47

\* value of an alphabet symbol, -1 for any other byte
B64Val(c) ==
    IF c >= 65 /\ c <= 90 THEN c - 65
    ELSE IF c >= 97 /\ c <= 122 THEN c - 97 + 26
    ELSE IF c >= 48 /\ c <= 57 THEN c - 48 + 52
    ELSE IF c = 43 THEN 62
    ELSE IF c = 47 THEN 63
    ELSE -1

Pad == Ord("=")

RECURSIVE Base64Encode(_)
Base64Encode(b) ==
    IF Len(b) = 0 THEN <<>>
    ELSE IF Len(b) = 1 THEN
        <<B64Char(b[1] \div 4), B64Char((b[1] % 4) * 16), Pad, Pad>>
    ELSE IF Len(b) = 2 THEN
        <<B64Char(b[1] \div 4),
          B64Char((b[1] % 4) * 16 + (b[2] \div 16)),
          B64Char((b[2] % 16) * 4), Pad>>
    ELSE
        <<B64Char(b[1] \div 4),
          B64Char((b[1] % 4) * 16 + (b[2] \div 16)),
          B64Char((b[2] % 16) * 4 + (b[3] \div 64)),
          B64Char(b[3] % 64)>> \o Base64Encode(SubSeq(b, 4, Len(b)))

\* Engine::decode of the STANDARD engine: None on an invalid symbol, a wrong
\* length, missing or misplaced padding, or non-zero trailing bits.
RECURSIVE Base64Decode(_)
Base64Decode(s) ==
    IF Len(s) = 0 THEN Some(<<>>)
    ELSE IF Len(s) < 4 THEN None
    ELSE
        LET a == B64Val(s[1])
            b == B64Val(s[2])
            c == B64Val(s[3])
            d == B64Val(s[4])
            last == Len(s) = 4
        IN  IF a < 0 \/ b < 0 THEN None
            ELSE IF last /\ s[3] = Pad /\ s[4] = Pad THEN
                IF b % 16 # 0 THEN None
                ELSE Some(<<a * 4 + (b \div 16)>>)
            ELSE IF c < 0 THEN None
            ELSE IF last /\ s[4] = Pad THEN
                IF c % 4 # 0 THEN None
                ELSE Some(<<a * 4 + (b \div 16), (b % 16) * 16 + (c \div 4)>>)
            ELSE IF d < 0 THEN None
            ELSE
                LET rest == Base64Decode(SubSeq(s, 5, Len(s)))
                IN  IF rest = None THEN None
                    ELSE Some(<<a * 4 + (b \div 16),
                                (b % 16) * 16 + (c \div 4),
                                (c % 4) * 64 + d>> \o rest[1])

-----------------------------------------------------------------------------
(* UTF-8 validation, as String::from_utf8 performs it. *)

IsCont(x) == x >= 128 /\ x <= 191

RECURSIVE IsUtf8(_)
IsUtf8(b) ==
    IF Len(b) = 0 THEN TRUE
    ELSE
        LET x == b[1]
            n == Len(b)
        IN  IF x <= 127 THEN IsUtf8(SubSeq(b, 2, n))
            ELSE IF x >= 194 /\ x <= 223 THEN
                /\ n >= 2
                /\ IsCont(b[2])
                /\ IsUtf8(SubSeq(b, 3, n))
            ELSE IF x >= 224 /\ x <= 239 THEN
                /\ n >= 3
                /\ IsCont(b[2])
                /\ IsCont(b[3])
                /\ (x = 224 => b[2] >= 160)
                /\ (x = 237 => b[2] <= 159)
                /\ IsUtf8(SubSeq(b, 4, n))
            ELSE IF x >= 240 /\ x <= 244 THEN
                /\ n >= 4
                /\ IsCont(b[2])
                /\ IsCont(b[3])
                /\ IsCont(b[4])
                /\ (x = 240 => b[2] >= 144)
                /\ (x = 244 => b[2] <= 143)
                /\ IsUtf8(SubSeq(b, 5, n))
            ELSE FALSE

\* String::from_utf8(bytes).ok()
\* a conversion that accepts any bytes: what String::from_utf8 is not
StringFromUtf8Unchecked(b) == Some(b)

StringFromUtf8(b) == IF IsUtf8(b) THEN Some(b) ELSE None

-----------------------------------------------------------------------------
(* extract_user_script *)

start_marker == Bytes("virtme.exec=") \o Grave

end_marker == Grave

extract_user_script_or_empty(virtme_script) ==
    LET first == SplitOnce(virtme_script, start_marker)
    IN  IF first = None THEN Some(<<>>)
        ELSE
            LET second == SplitOnce(first[1][2], end_marker)
            IN  IF second = None THEN None
                ELSE
                    LET decoded == Base64Decode(second[1][1])
                    IN  IF decoded = None THEN None
                        ELSE StringFromUtf8(decoded[1])

extract_user_script(virtme_script) ==
    LET first == SplitOnce(virtme_script, start_marker)
    IN  IF first = None THEN None
        ELSE
            LET second == SplitOnce(first[1][2], end_marker)
            IN  IF second = None THEN None
                ELSE
                    LET decoded == Base64Decode(second[1][1])
                    IN  IF decoded = None THEN None
                        ELSE StringFromUtf8(decoded[1])

-----------------------------------------------------------------------------
(* Bounds of the boot model. *)

\* virtio network devices that may be registered
MaxNetDevs == 2

-----------------------------------------------------------------------------
(* Mount tables. *)

MountInfo(source, target, fs_type, flags, fsdata) ==
    [source |-> source, target |-> target, fs_type |-> fs_type,
     flags |-> flags, fsdata |-> fsdata]

\* the kernel table with /run ahead of /proc: an order in which the /run
\* guard looks up the guest tools before /proc is mounted
KERNEL_MOUNTS_run_first ==
    << MountInfo("run", "/run", "tmpfs", {}, "mode=0755"),
       MountInfo("proc", "/proc", "proc", {"MS_NOSUID", "MS_NOEXEC", "MS_NODEV"}, ""),
       MountInfo("sys", "/sys", "sysfs", {"MS_NOSUID", "MS_NOEXEC", "MS_NODEV"}, ""),
       MountInfo("devtmpfs", "/dev", "devtmpfs", {"MS_NOSUID", "MS_NOEXEC"}, ""),
       MountInfo("configfs", "/sys/kernel/config", "configfs", {}, ""),
       MountInfo("debugfs", "/sys/kernel/debug", "debugfs", {}, ""),
       MountInfo("tracefs", "/sys/kernel/tracing", "tracefs", {}, ""),
       MountInfo("securityfs", "/sys/kernel/security", "securityfs", {}, "") >>

KERNEL_MOUNTS ==
    << MountInfo("proc", "/proc", "proc", {"MS_NOSUID", "MS_NOEXEC", "MS_NODEV"}, ""),
       MountInfo("sys", "/sys", "sysfs", {"MS_NOSUID", "MS_NOEXEC", "MS_NODEV"}, ""),
       MountInfo("run", "/run", "tmpfs", {}, "mode=0755"),
       MountInfo("devtmpfs", "/dev", "devtmpfs", {"MS_NOSUID", "MS_NOEXEC"}, ""),
       MountInfo("configfs", "/sys/kernel/config", "configfs", {}, ""),
       MountInfo("debugfs", "/sys/kernel/debug", "debugfs", {}, ""),
       MountInfo("tracefs", "/sys/kernel/tracing", "tracefs", {}, ""),
       MountInfo("securityfs", "/sys/kernel/security", "securityfs", {}, "") >>

SYSTEM_MOUNTS ==
    << MountInfo("devpts", "/dev/pts", "devpts", {"MS_NOSUID", "MS_NOEXEC"}, ""),
       MountInfo("tmpfs", "/dev/shm", "tmpfs", {"MS_NOSUID", "MS_NODEV"}, ""),
       MountInfo("tmpfs", "/var/log", "tmpfs", {"MS_NOSUID", "MS_NODEV"}, ""),
       MountInfo("tmpfs", "/var/tmp", "tmpfs", {"MS_NOSUID", "MS_NODEV"}, ""),
       MountInfo("tmpfs", "/var/spool/rsyslog", "tmpfs", {"MS_NOSUID", "MS_NODEV"}, ""),
       MountInfo("tmpfs", "/var/lib/portables", "tmpfs", {"MS_NOSUID", "MS_NODEV"}, ""),
       MountInfo("tmpfs", "/var/lib/machines", "tmpfs", {"MS_NOSUID", "MS_NODEV"}, ""),
       MountInfo("tmpfs", "/var/lib/private", "tmpfs", {"MS_NOSUID", "MS_NODEV"}, ""),
       MountInfo("tmpfs", "/var/lib/sudo", "tmpfs", {"MS_NOSUID", "MS_NODEV"}, ""),
       MountInfo("tmpfs", "/var/lib/apt", "tmpfs", {"MS_NOSUID", "MS_NODEV"}, ""),
       MountInfo("tmpfs", "/var/cache", "tmpfs", {"MS_NOSUID", "MS_NODEV"}, ""),
       MountInfo("tmpfs", "/var/lib/snapd/cookie", "tmpfs", {"MS_NOSUID", "MS_NODEV"}, "") >>

USER_SCRIPT == "/run/tmp/.virtme-script"

\* legacy cgroup v1 controllers mounted by mount_cgroupfs
CgroupSubsystems == <<"cpu", "cpuacct", "blkio", "memory", "devices", "pids">>

-----------------------------------------------------------------------------
(* Inputs of a boot. *)

\* The environment handed to init, in environ order.
Env0 == << <<"TERM", "linux">> >>

Env1 == << <<"virtme_hostname", "vm">>, <<"virtme_console", "ttyS0">>,
           <<"virtme", "plain">>, <<"TERM", "linux">> >>

Env2 == << <<"virtme_user", "alice">>, <<"virtme_console", "ttyS0">>,
           <<"virtme_rw_overlay0", "/etc">>, <<"virtme_initmount0", "/mnt/a">>,
           <<"virtme_chdir", "/home/alice">> >>

Env3 == << <<"virtme_graphics", "1">>, <<"virtme_console", "tty0">>,
           <<"virtme_user", "alice">>, <<"virtme_stty_con", "rows 24">>,
           <<"nr_open", "1048576">> >>

Env4 == << <<"virtme_rw_overlay1", "/var">>, <<"virtme_rw_overlay0", "/etc">>,
           <<"virtme_vsockmount", "/mnt/v">> >>

Envs == {Env0, Env1, Env2, Env3, Env4}

\* Contents of /proc/cmdline.
CmdPlain == Bytes("console=ttyS0 quiet")

CmdExample == Bytes("other=stuff virtme.exec=") \o Grave \o Bytes("SGVsbG8K")
                \o Grave \o Bytes(" is=ignored")

CmdDhcp == Bytes("console=ttyS0 virtme.dhcp")

CmdVsock == Bytes("quiet virtme.vsockexec=") \o Grave \o Bytes("sh") \o Grave

CmdLegacyBadExec == Bytes("SYSTEMD_CGROUP_ENABLE_LEGACY_FORCE=1 virtme.exec=")
                      \o Grave \o Bytes("SGk") \o Grave

\* malformed embedded commands: no closing backtick; a payload that decodes
\* to the byte 0xff, which is not UTF-8 (CmdLegacyBadExec carries a payload
\* that is not base64)
CmdUnclosed == Bytes("quiet virtme.exec=") \o Grave \o Bytes("SGk=")

CmdNotUtf8 == Bytes("virtme.exec=") \o Grave \o Bytes("/w==") \o Grave

CmdVsockExec == Bytes("virtme.vsockexec=") \o Grave \o Bytes("sh") \o Grave
                  \o Bytes(" virtme.exec=") \o Grave \o Bytes("SGk=") \o Grave

\* Paths of the running executable.
Exes == {"/run/virtme/guesttools/bin/virtme-ng-init",
         "/usr/lib/virtme/guest/bin/virtme-ng-init",
         "/runner/bin/virtme-ng-init"}

\* The boots: environment, /proc/cmdline and executable path of each.
Boots ==
    LET run == "/run/virtme/guesttools/bin/virtme-ng-init"
        usr == "/usr/lib/virtme/guest/bin/virtme-ng-init"
    IN  { <<Env1, CmdUnclosed, usr>>,
          <<Env1, CmdNotUtf8, run>>,
          <<Env0, CmdPlain, usr>>,
          <<Env0, CmdPlain, "/runner/bin/virtme-ng-init">>,
          <<Env0, CmdExample, run>>,
          <<Env0, CmdDhcp, usr>>,
          <<Env1, CmdPlain, run>>,
          <<Env1, CmdExample, run>>,
          <<Env1, CmdVsock, usr>>,
          <<Env1, CmdLegacyBadExec, run>>,
          <<Env2, CmdExample, usr>>,
          <<Env2, CmdDhcp, run>>,
          <<Env3, CmdExample, run>>,
          <<Env3, CmdLegacyBadExec, usr>>,
          <<Env4, CmdVsock, run>>,
          <<Env4, CmdVsockExec, usr>> }

\* Results of a mount(2) attempt: success, EBUSY (the filesystem is already
\* mounted there, so the target is usable), ENOENT (source or filesystem type
\* not found, the target is not usable).
MountResults == {"ok", "EBUSY", "ENOENT"}

\* The serial ports run_user_script looks at.
CheckedPorts == {"virtme.stdin", "virtme.stdout", "virtme.stderr",
                 "virtme.dev_stdout", "virtme.dev_stderr"}

AllPorts == CheckedPorts \cup {"virtme.ret", "virtme.dev_stdin"}

\* Sets of entries that may be present under /dev/virtio-ports.
PortChoices == { {}, AllPorts, CheckedPorts, AllPorts \ {"virtme.dev_stderr"} }

\* Exit status of the script: Some(code), or None when a signal ended it.
ExitStatuses == {Some(0), Some(255), None}

-----------------------------------------------------------------------------
(* Environment (std::env). *)

EnvNames(e) == {e[i][1] : i \in DOMAIN e}

\* env::var(name).is_ok()
EnvHas(e, name) == name \in EnvNames(e)

\* env::var(name), for a name that is set
EnvGet(e, name) == e[CHOOSE i \in DOMAIN e : e[i][1] = name][2]

\* env::remove_var
EnvRemove(e, name) ==
    LET Keep(kv) == kv[1] # name
    IN  SelectSeq(e, Keep)

\* env::set_var
EnvSet(e, name, value) ==
    IF EnvHas(e, name)
    THEN [i \in DOMAIN e |-> IF e[i][1] = name THEN <<name, value>> ELSE e[i]]
    ELSE Append(e, <<name, value>>)

\* str::starts_with on names and paths
StartsWith(s, prefix) ==
    /\ Len(s) >= Len(prefix)
    /\ SubSeq(s, 1, Len(prefix)) = prefix

\* the variables clear_virtme_envs is meant to remove
IsPrivate(name) == StartsWith(name, "virtme_")

PrivateNames(e) == {n \in EnvNames(e) : IsPrivate(n)}

\* a stripping step that stops after the first private variable: what
\* clear_virtme_envs must not be
clear_first_virtme_env(e) ==
    IF PrivateNames(e) = {} THEN e
    ELSE EnvRemove(e, e[CHOOSE i \in DOMAIN e :
                            /\ IsPrivate(e[i][1])
                            /\ \A j \in 1..(i - 1) : ~IsPrivate(e[j][1])][1])

\* clear_virtme_envs: env::vars() snapshots the environment, then every
\* variable of the snapshot whose key starts with virtme_ is removed.
clear_virtme_envs(e) ==
    LET Keep(kv) == ~StartsWith(kv[1], "virtme_")
    IN  SelectSeq(e, Keep)

\* the entries of env::vars() whose key starts with prefix, in order
EnvWithPrefix(e, prefix) ==
    LET Match(kv) == StartsWith(kv[1], prefix)
    IN  SelectSeq(e, Match)

-----------------------------------------------------------------------------
(* Paths. *)

\* index of the last '/' of a path, 0 if there is none
LastSlash(p) ==
    LET hits == {i \in 1..Len(p) : SubSeq(p, i, i) = "/"}
    IN  IF hits = {} THEN 0
        ELSE CHOOSE i \in hits : \A j \in hits : j <= i

\* Path::parent of an absolute path without trailing slash
Parent(p) ==
    IF p = "/" \/ LastSlash(p) = 0 THEN None
    ELSE IF LastSlash(p) = 1 THEN Some("/")
    ELSE Some(SubSeq(p, 1, LastSlash(p) - 1))

-----------------------------------------------------------------------------
(* Mounts (utils::do_mount). *)

Attempt(by, source, target, fs_type, fsdata) ==
    [by |-> by, source |-> source, target |-> target, fs_type |-> fs_type,
     fsdata |-> fsdata]

ProcReadable == procMounted

\* a do_mount that reports no failure at all: what do_mount must not be
do_mount_silent(by, source, target, fs_type, fsdata, res) ==
    /\ mountLog' = Append(mountLog, Attempt(by, source, target, fs_type, fsdata))
    /\ lastMount' = [target |-> target, res |-> res, logged |-> FALSE]
    /\ procMounted' = IF target = "/proc" THEN res \in {"ok", "EBUSY"}
                      ELSE procMounted

\* utils::do_mkdir of paths in turn, after n mount attempts; a failing mkdir
\* is ignored
do_mkdir(paths, n) ==
    mkdirs \o [i \in 1..Len(paths) |-> [path |-> paths[i], at |-> n]]

\* utils::do_mount: the attempt, its result, and whether the failure is
\* logged (every error but ENOENT is); a successful or EBUSY mount of /proc
\* makes /proc readable
do_mount(by, source, target, fs_type, fsdata, res) ==
    /\ mountLog' = Append(mountLog, Attempt(by, source, target, fs_type, fsdata))
    /\ lastMount' = [target |-> target, res |-> res,
                     logged |-> res # "ok" /\ res # "ENOENT"]
    /\ procMounted' = IF target = "/proc" THEN res \in {"ok", "EBUSY"}
                      ELSE procMounted

\* get_guest_tools_dir: env::current_exe() reads /proc/self/exe
get_guest_tools_dir ==
    IF ~ProcReadable THEN None
    ELSE LET bin == Parent(exe)
         IN  IF bin = None THEN None ELSE Parent(bin[1])

-----------------------------------------------------------------------------
(* /dev entries and serial ports. *)

Dsts == {"/dev/fd", "/dev/virtme.ret", "/dev/stdin", "/dev/stdout", "/dev/stderr"}

Absent == [kind |-> "absent", target |-> ""]

RegularFile == [kind |-> "file", target |-> ""]

Link(target) == [kind |-> "link", target |-> target]

PortPath(name) == "/dev/virtio-ports/" \o name

ProcFds == {"/proc/self/fd", "/proc/self/fd/0", "/proc/self/fd/1", "/proc/self/fd/2"}

\* Path::exists of a path that is no /dev entry of Dsts
TargetExists(t, ps) ==
    \/ \E n \in ps : t = PortPath(n)
    \/ t \in ProcFds /\ ProcReadable

\* Path::exists (follows symlinks: a dangling symlink does not exist)
Exists(p, d, ps) ==
    IF p \in DOMAIN d
    THEN \/ d[p].kind = "file"
         \/ d[p].kind = "link" /\ TargetExists(d[p].target, ps)
    ELSE TargetExists(p, ps)

\* utils::do_unlink and utils::do_symlink on a state [dev, klog]
do_unlink(st, path) ==
    IF st.dev[path].kind # "absent"
    THEN [st EXCEPT !.dev[path] = Absent]
    ELSE [st EXCEPT !.klog = Append(@, <<"failed to unlink file", path>>)]

do_symlink(st, src, dst) ==
    IF st.dev[dst].kind = "absent"
    THEN [st EXCEPT !.dev[dst] = Link(src)]
    ELSE [st EXCEPT !.klog = Append(@, <<"failed to create symlink", src, dst>>)]

\* symlink_fds
fd_links == << <<"/proc/self/fd", "/dev/fd">>,
               <<"/proc/self/fd/0", "/dev/stdin">>,
               <<"/proc/self/fd/1", "/dev/stdout">>,
               <<"/proc/self/fd/2", "/dev/stderr">> >>

RECURSIVE symlink_fds(_, _, _)
symlink_fds(st, ps, i) ==
    IF i > Len(fd_links) THEN st
    ELSE LET src == fd_links[i][1]
             dst == fd_links[i][2]
         IN  symlink_fds(IF ~Exists(dst, st.dev, ps) THEN do_symlink(st, src, dst)
                         ELSE st,
                         ps, i + 1)

\* the remap loop of run_user_script
io_files == << <<"/dev/virtio-ports/virtme.ret", "/dev/virtme.ret">>,
               <<"/dev/virtio-ports/virtme.dev_stdin", "/dev/stdin">>,
               <<"/dev/virtio-ports/virtme.dev_stdout", "/dev/stdout">>,
               <<"/dev/virtio-ports/virtme.dev_stderr", "/dev/stderr">> >>

RemapOne(st, ps, src, dst) ==
    IF ~Exists(src, st.dev, ps) THEN st
    ELSE do_symlink(IF Exists(dst, st.dev, ps) THEN do_unlink(st, dst) ELSE st,
                    src, dst)

RECURSIVE RemapFrom(_, _, _)
RemapFrom(st, ps, i) ==
    IF i > Len(io_files) THEN st
    ELSE RemapFrom(RemapOne(st, ps, io_files[i][1], io_files[i][2]), ps, i + 1)

\* a check of the three ports the script talks to only: what
\* ScriptPortsPresent must not be
ScriptPortsPresentThree(ps) ==
    /\ "virtme.stdin" \in ps
    /\ "virtme.stdout" \in ps
    /\ "virtme.stderr" \in ps

\* the five existence checks that select the remote (serial port) mode
ScriptPortsPresent(ps) ==
    /\ "virtme.stdin" \in ps
    /\ "virtme.stdout" \in ps
    /\ "virtme.stderr" \in ps
    /\ "virtme.dev_stdout" \in ps
    /\ "virtme.dev_stderr" \in ps

\* what may lie at /dev/virtme.ret when the remap loop starts
RetPriors == {Absent, RegularFile, Link("/dev/virtio-ports/virtme.ret"),
              Link("/dev/gone")}

-----------------------------------------------------------------------------
(* Decimal text. *)

RECURSIVE ToDecimal(_)
\* i32::to_string of a non-negative number
ToDecimal(n) ==
    IF n < 10 THEN <<48 + n>>
    ELSE ToDecimal(n \div 10) \o <<48 + (n % 10)>>

\* the text written to /dev/virtme.ret for an exit status
RetText(status) ==
    IF status # None THEN ToDecimal(status[1])
    ELSE Bytes("-1")

-----------------------------------------------------------------------------
(* Threads. *)

DhcpTask(k) == "dhcp" \o ToString(k)

TaskIds == {"socat", "udevd", "misc", "lo"} \cup {DhcpTask(k) : k \in 1..MaxNetDevs}

\* extract_vsock_exec(cmdline).is_some()
vsock_marker == Bytes("virtme.vsockexec=") \o Grave

extract_vsock_exec(c) ==
    LET first == SplitOnce(c, vsock_marker)
    IN  IF first = None THEN None
        ELSE LET second == SplitOnce(first[1][2], Grave)
             IN  IF second = None THEN None ELSE Some(second[1][1])

-----------------------------------------------------------------------------
(* The body of main(), in order. *)

\* main() with the system table mounted before the overlays: what the order
\* of main() must not be
main_steps_system_first ==
    << "check_init_pid", "configure_environment", "configure_hostname",
       "mount_kernel_filesystems", "mount_cgroupfs", "configure_limits",
       "mount_sys_filesystems", "mount_virtme_overlays", "mount_kernel_modules",
       "run_systemd_tmpfiles", "setup_socat_console", "run_udevd",
       "run_misc_services", "setup_network", "join", "set_cwd",
       "setup_user_session", "poweroff" >>

main_steps ==
    << "check_init_pid", "configure_environment", "configure_hostname",
       "mount_kernel_filesystems", "mount_cgroupfs", "configure_limits",
       "mount_virtme_overlays", "mount_sys_filesystems", "mount_kernel_modules",
       "run_systemd_tmpfiles", "setup_socat_console", "run_udevd",
       "run_misc_services", "setup_network", "join", "set_cwd",
       "setup_user_session", "poweroff" >>

\* the statement of main() that follows step
After(step) ==
    main_steps[1 + CHOOSE i \in 1..(Len(main_steps) - 1) : main_steps[i] = step]

\* a panic of the main thread ends the process with status 101
Panic ==
    /\ pc' = "panicked"
    /\ exitStatus' = Some(101)

\* a join that returns once the thread has been spawned, finished or not:
\* what Joinable must not be
JoinableSpawned(t) == task[t] # "unspawned"

\* join() returns once the thread has finished
Joinable(t) == task[t] = "done"

mntVars == <<mountLog, lastMount, procMounted>>

sessVars == <<consdev, opened, ports, dev, scriptFile, launched, retFile>>

thrVars == <<task, handles, netdevs>>

inVars == <<cmdline, exe>>

netVars == <<virtio_net>>

hVars == <<xin, xout>>

NoFile == None

NoMount == [target |-> "", res |-> "ok", logged |-> FALSE]

\* SpecExtract has no input and no result during a boot
NoInput == [prefix |-> <<>>, text |-> <<>>, suffix |-> <<>>]

NoOutput == [done |-> FALSE, result |-> None]

Untouched == [state |-> "untouched", text |-> <<>>]

Init ==
    /\ pc = "check_init_pid"
    /\ exitStatus = None
    /\ \E boot \in Boots :
          /\ env = boot[1]
          /\ cmdline = boot[2]
          /\ exe = boot[3]
    /\ mountLog = <<>>
    /\ lastMount = NoMount
    /\ procMounted = FALSE
    /\ klog = <<>>
    /\ task = [t \in TaskIds |-> "unspawned"]
    /\ handles = <<>>
    /\ netdevs = <<>>
    /\ virtio_net = "unread"
    /\ mkdirs = <<>>
    /\ consdev = None
    /\ opened = {}
    /\ ports = {}
    /\ dev = [d \in Dsts |-> Absent]
    /\ scriptFile = NoFile
    /\ launched = <<>>
    /\ retFile = Untouched
    /\ power = "on"
    /\ clears = 0
    /\ loopi = 1
    /\ xin = NoInput
    /\ xout = NoOutput

-----------------------------------------------------------------------------
(* main(): basic system initialization. *)

\* a PID check that only warns and goes on: what check_init_pid must not be
CheckInitPidWarnOnly ==
    /\ pc = "check_init_pid"
    /\ \E id \in {1, 2} :
          klog' = IF id # 1 THEN Append(klog, <<"must be run as PID 1">>) ELSE klog
    /\ pc' = After("check_init_pid")
    /\ UNCHANGED <<exitStatus, env, mntVars, power, clears, loopi, inVars, mkdirs, netVars, thrVars,
                   sessVars, hVars>>

\* check_init_pid: the process id is 1, or any other id
CheckInitPid ==
    /\ pc = "check_init_pid"
    /\ \E id \in {1, 2} :
          IF id # 1
          THEN /\ klog' = Append(klog, <<"must be run as PID 1">>)
               /\ pc' = "exited"
               /\ exitStatus' = Some(1)
          ELSE /\ pc' = After("check_init_pid")
               /\ UNCHANGED <<klog, exitStatus>>
    /\ UNCHANGED <<env, mntVars, power, clears, loopi, inVars, mkdirs, netVars, thrVars, sessVars, hVars>>

ConfigureEnvironment ==
    /\ pc = "configure_environment"
    /\ env' = EnvSet(env, "PATH", "/bin:/sbin:/usr/bin:/usr/sbin:/usr/local/bin")
    /\ pc' = After("configure_environment")
    /\ UNCHANGED <<exitStatus, mntVars, klog, power, clears, loopi, inVars, mkdirs, netVars,
                   thrVars, sessVars, hVars>>

\* configure_hostname: a sethostname failure is only logged
ConfigureHostname ==
    /\ pc = "configure_hostname"
    /\ IF EnvHas(env, "virtme_hostname")
       THEN \E ok \in BOOLEAN :
               klog' = IF ok THEN klog
                       ELSE Append(klog, <<"failed to change hostname">>)
       ELSE klog' = Append(klog, <<"virtme_hostname is not defined">>)
    /\ pc' = After("configure_hostname")
    /\ UNCHANGED <<exitStatus, env, mntVars, power, clears, loopi, inVars, mkdirs, netVars,
                   thrVars, sessVars, hVars>>

\* one iteration of the loop of mount_kernel_filesystems, called at here and
\* returning to next
KernelMountStep(here, next) ==
    /\ pc = here
    /\ LET m == KERNEL_MOUNTS[loopi]
           tools == get_guest_tools_dir
       IN  IF m.target = "/run" /\ tools # None /\ StartsWith(tools[1], "/run")
           THEN /\ klog' = Append(klog, <<"/run previously mounted, skipping">>)
                /\ UNCHANGED mntVars
           ELSE /\ \E res \in MountResults :
                      do_mount("mount_kernel_filesystems", m.source, m.target,
                               m.fs_type, m.fsdata, res)
                /\ UNCHANGED klog
    /\ IF loopi < Len(KERNEL_MOUNTS)
       THEN loopi' = loopi + 1 /\ UNCHANGED pc
       ELSE loopi' = 1 /\ pc' = next
    /\ UNCHANGED <<exitStatus, env, power, clears, inVars, mkdirs, netVars, thrVars, sessVars, hVars>>

MountKernelFilesystems ==
    KernelMountStep("mount_kernel_filesystems", After("mount_kernel_filesystems"))

legacy_flag == Bytes("SYSTEMD_CGROUP_ENABLE_LEGACY_FORCE=1")

\* mount_cgroupfs up to its first mount: read_to_string("/proc/cmdline")
\* is unwrapped
MountCgroupfs ==
    /\ pc = "mount_cgroupfs"
    /\ IF ~ProcReadable
       THEN /\ Panic
            /\ UNCHANGED mntVars
       ELSE /\ \E res \in MountResults :
                  IF Contains(cmdline, legacy_flag)
                  THEN /\ do_mount("mount_cgroupfs", "cgroup", "/sys/fs/cgroup",
                                   "tmpfs", "", res)
                       /\ pc' = "mount_cgroupfs_legacy"
                  ELSE /\ do_mount("mount_cgroupfs", "cgroup2", "/sys/fs/cgroup",
                                   "cgroup2", "", res)
                       /\ pc' = After("mount_cgroupfs")
            /\ UNCHANGED exitStatus
    /\ UNCHANGED <<env, klog, power, clears, loopi, inVars, mkdirs, netVars, thrVars, sessVars, hVars>>

\* one iteration of the legacy cgroup v1 loop of mount_cgroupfs
MountCgroupLegacy ==
    /\ pc = "mount_cgroupfs_legacy"
    /\ mkdirs' = do_mkdir(<<"/sys/fs/cgroup/" \o CgroupSubsystems[loopi]>>,
                           Len(mountLog))
    /\ LET subsys == CgroupSubsystems[loopi]
       IN  \E res \in MountResults :
              do_mount("mount_cgroupfs", subsys, "/sys/fs/cgroup/" \o subsys,
                       "cgroup", subsys, res)
    /\ IF loopi < Len(CgroupSubsystems)
       THEN loopi' = loopi + 1 /\ UNCHANGED pc
       ELSE loopi' = 1 /\ pc' = After("mount_cgroupfs")
    /\ UNCHANGED <<exitStatus, env, klog, power, clears, inVars, netVars, thrVars, sessVars, hVars>>

\* configure_limits: a failed write of nr_open panics (expect)
ConfigureLimits ==
    /\ pc = "configure_limits"
    /\ IF EnvHas(env, "nr_open") /\ ProcReadable
       THEN \E written \in BOOLEAN :
               IF written
               THEN pc' = After("configure_limits") /\ UNCHANGED exitStatus
               ELSE Panic
       ELSE pc' = After("configure_limits") /\ UNCHANGED exitStatus
    /\ UNCHANGED <<env, mntVars, klog, power, clears, loopi, inVars, mkdirs, netVars, thrVars,
                   sessVars, hVars>>

\* the overlay requests, in the order env::vars() yields them
OverlayRequests == EnvWithPrefix(env, "virtme_rw_overlay")

\* the overlay options with the inode-numbering option on both attempts:
\* what mount_virtme_overlays must not pass
OverlayOptsXinoKept(path, dir, xino) ==
    "xino=off,lowerdir=" \o path \o ",upperdir=" \o dir \o "/upper,workdir="
        \o dir \o "/work"

OverlayOpts(path, dir, xino) ==
    (IF xino THEN "xino=off," ELSE "")
        \o "lowerdir=" \o path \o ",upperdir=" \o dir \o "/upper,workdir="
        \o dir \o "/work"

\* one scratch directory for all requests: what mount_virtme_overlays must
\* not do
OverlayDirsShared(key) ==
    <<"/run/tmp/overlay", "/run/tmp/overlay/upper", "/run/tmp/overlay/work">>

\* dir, upperdir and workdir of the request named key, in the order in which
\* mount_virtme_overlays creates them
OverlayDirs(key) ==
    <<"/run/tmp/" \o key, "/run/tmp/" \o key \o "/upper",
      "/run/tmp/" \o key \o "/work">>

\* Results of an overlay mount: EINVAL is the kernel rejecting an option
OverlayResults == MountResults \cup {"EINVAL"}

\* utils::do_mount_check: the mount attempt that hands an option-parsing
\* error back to its caller; any other failure is dealt with as by do_mount
do_mount_check(by, source, target, fs_type, fsdata, res) ==
    /\ mountLog' = Append(mountLog, Attempt(by, source, target, fs_type, fsdata))
    /\ lastMount' = [target |-> target, res |-> res,
                     logged |-> res \notin {"ok", "ENOENT", "EINVAL"}]
    /\ procMounted' = IF target = "/proc" THEN res \in {"ok", "EBUSY"}
                      ELSE procMounted

\* result.is_err() of the value do_mount_check returned
is_err(res) == res = "EINVAL"

\* one iteration of the loop of mount_virtme_overlays up to the test of
\* result.is_err(): the overlay mount with xino=off
MountVirtmeOverlays ==
    /\ pc = "mount_virtme_overlays"
    /\ IF loopi > Len(OverlayRequests)
       THEN /\ loopi' = 1
            /\ pc' = After("mount_virtme_overlays")
            /\ mkdirs' = IF loopi = 1 THEN do_mkdir(<<"/run/tmp/">>, Len(mountLog))
                          ELSE mkdirs
            /\ UNCHANGED mntVars
       ELSE LET key == OverlayRequests[loopi][1]
                path == OverlayRequests[loopi][2]
                dir == "/run/tmp/" \o key
            IN  \E res \in OverlayResults :
                   /\ mkdirs' = do_mkdir((IF loopi = 1 THEN <<"/run/tmp/">> ELSE <<>>)
                                            \o OverlayDirs(key),
                                          Len(mountLog))
                   /\ do_mount_check("mount_virtme_overlays", key, path, "overlay",
                                     OverlayOpts(path, dir, TRUE), res)
                   /\ IF is_err(res)
                      THEN /\ pc' = "mount_virtme_overlays_retry"
                           /\ UNCHANGED loopi
                      ELSE /\ loopi' = loopi + 1
                           /\ UNCHANGED pc
    /\ UNCHANGED <<exitStatus, env, klog, power, clears, inVars, netVars, thrVars, sessVars, hVars>>

\* the rest of the iteration after result.is_err(): the same mount without
\* xino by do_mount, then the next request whatever the result
RetryVirtmeOverlay ==
    /\ pc = "mount_virtme_overlays_retry"
    /\ LET key == OverlayRequests[loopi][1]
           path == OverlayRequests[loopi][2]
           dir == "/run/tmp/" \o key
       IN  \E res \in OverlayResults :
              do_mount("mount_virtme_overlays", key, path, "overlay",
                       OverlayOpts(path, dir, FALSE), res)
    /\ loopi' = loopi + 1
    /\ pc' = "mount_virtme_overlays"
    /\ UNCHANGED <<exitStatus, env, klog, power, clears, inVars, mkdirs, netVars, thrVars, sessVars, hVars>>

\* one iteration of the loop of mount_sys_filesystems
MountSysFilesystems ==
    /\ pc = "mount_sys_filesystems"
    /\ mkdirs' = IF loopi = 1
                  THEN do_mkdir(<<"/dev/pts", "/dev/shm", "/run/dbus">>, Len(mountLog))
                  ELSE mkdirs
    /\ LET m == SYSTEM_MOUNTS[loopi]
       IN  \E res \in MountResults :
              do_mount("mount_sys_filesystems", m.source, m.target,
                       m.fs_type, m.fsdata, res)
    /\ IF loopi < Len(SYSTEM_MOUNTS)
       THEN loopi' = loopi + 1 /\ UNCHANGED pc
       ELSE loopi' = 1 /\ pc' = After("mount_sys_filesystems")
    /\ UNCHANGED <<exitStatus, env, klog, power, clears, inVars, netVars, thrVars, sessVars, hVars>>

\* mount_kernel_modules: nothing with virtme_root_mods; a tmpfs over
\* /lib/modules with virtme_link_mods; otherwise mismatched modules (the
\* module directory exists) are masked by a read-only tmpfs
MountKernelModules ==
    /\ pc = "mount_kernel_modules"
    /\ \E mod_dir_exists \in BOOLEAN, res \in MountResults :
          /\ mkdirs' = IF mod_dir_exists THEN mkdirs
                        ELSE do_mkdir(<<"/lib/modules">>, Len(mountLog))
          /\ IF EnvHas(env, "virtme_root_mods")
             THEN res = "ok" /\ mod_dir_exists /\ UNCHANGED mntVars
             ELSE IF EnvHas(env, "virtme_link_mods")
             THEN /\ mod_dir_exists
                  /\ do_mount("mount_kernel_modules", "none", "/lib/modules/",
                              "tmpfs", "", res)
             ELSE IF mod_dir_exists
             THEN do_mount("mount_kernel_modules", "disallow_kmod",
                           "/lib/modules/kver", "tmpfs", "ro,mode=0000", res)
             ELSE res = "ok" /\ UNCHANGED mntVars
    /\ pc' = After("mount_kernel_modules")
    /\ UNCHANGED <<exitStatus, env, klog, power, clears, loopi, inVars, netVars, thrVars,
                   sessVars, hVars>>

\* run_systemd_tmpfiles: run_cmd never fails the caller
RunSystemdTmpfiles ==
    /\ pc = "run_systemd_tmpfiles"
    /\ pc' = After("run_systemd_tmpfiles")
    /\ UNCHANGED <<exitStatus, env, mntVars, klog, power, clears, loopi, inVars, mkdirs, netVars,
                   thrVars, sessVars, hVars>>

-----------------------------------------------------------------------------
(* main(): service bring-up. *)

\* setup_socat_console: the vsock proxy thread is spawned and never joined
SetupSocatConsole ==
    /\ pc = "setup_socat_console"
    /\ task' = IF ProcReadable /\ extract_vsock_exec(cmdline) # None
               THEN [task EXCEPT !["socat"] = "vsockmount"]
               ELSE task
    /\ pc' = After("setup_socat_console")
    /\ UNCHANGED <<exitStatus, env, mntVars, klog, power, clears, loopi, inVars, mkdirs, netVars,
                   handles, netdevs, sessVars, hVars>>

\* run_udevd: Some(handle) if find_udevd finds the daemon, None otherwise
RunUdevd ==
    /\ pc = "run_udevd"
    /\ \E found \in BOOLEAN :
          IF found
          THEN /\ task' = [task EXCEPT !["udevd"] = "running"]
               /\ handles' = Append(handles, "udevd")
               /\ UNCHANGED klog
          ELSE /\ klog' = Append(klog, <<"unable to find udevd, skip udev.">>)
               /\ UNCHANGED <<task, handles>>
    /\ pc' = After("run_udevd")
    /\ UNCHANGED <<exitStatus, env, mntVars, power, clears, loopi, inVars, mkdirs, netVars,
                   netdevs, sessVars, hVars>>

RunMiscServices ==
    /\ pc = "run_misc_services"
    /\ task' = [task EXCEPT !["misc"] = "symlink_fds"]
    /\ handles' = Append(handles, "misc")
    /\ pc' = After("run_misc_services")
    /\ UNCHANGED <<exitStatus, env, mntVars, klog, power, clears, loopi, inVars, mkdirs, netVars,
                   netdevs, sessVars, hVars>>

dhcp_flag == Bytes("virtme.dhcp")

\* handles with a DHCP client for the first device only: what setup_network
\* must not return
NetworkHandlesOneClient(n) ==
    <<"lo">> \o [k \in 1..(IF n > 1 THEN 1 ELSE n) |-> DhcpTask(k)]

\* the handles setup_network returns for n discovered devices
NetworkHandles(n) == <<"lo">> \o [k \in 1..n |-> DhcpTask(k)]

\* get_network_devices returns the n devices it found under virtio_net:
\* one DHCP thread per device, and setup_network returns its handles
NetworkDevicesFound(n) ==
    /\ netdevs' = [k \in 1..n |-> "eth" \o ToString(k - 1)]
    /\ task' = [t \in TaskIds |->
                   IF t \in {"lo"} \cup {DhcpTask(k) : k \in 1..n}
                   THEN "running" ELSE task[t]]
    /\ handles' = handles \o NetworkHandles(n)
    /\ klog' = klog \o [k \in 1..n |->
                 <<"setting up network device", "eth" \o ToString(k - 1)>>]
    /\ pc' = After("setup_network")

\* setup_network: the loopback thread, then with virtme.dhcp the first read
\* of the virtio_net directory by get_network_devices
SetupNetwork ==
    /\ pc = "setup_network"
    /\ IF ~ProcReadable
       THEN /\ task' = [task EXCEPT !["lo"] = "running"]
            /\ Panic
            /\ UNCHANGED <<handles, netdevs, klog, netVars>>
       ELSE /\ IF Contains(cmdline, dhcp_flag) /\ get_guest_tools_dir # None
               THEN \E registered \in BOOLEAN :
                       IF registered
                       THEN /\ virtio_net' = "present"
                            /\ \E n \in 0..MaxNetDevs : NetworkDevicesFound(n)
                       ELSE /\ virtio_net' = "absent"
                            /\ task' = [task EXCEPT !["lo"] = "running"]
                            /\ pc' = "get_network_devices_sleep"
                            /\ UNCHANGED <<handles, netdevs, klog>>
               ELSE /\ NetworkDevicesFound(0)
                    /\ UNCHANGED netVars
            /\ UNCHANGED exitStatus
    /\ UNCHANGED <<env, mntVars, power, clears, loopi, inVars, mkdirs, sessVars, hVars>>

\* get_network_devices: the loop around read_dir, after the sleep that
\* follows a failed read; the code sets no limit to the number of reads
GetNetworkDevices ==
    /\ pc = "get_network_devices"
    /\ IF virtio_net = "present"
       THEN \E n \in 0..MaxNetDevs : NetworkDevicesFound(n)
       ELSE /\ pc' = "get_network_devices_sleep"
            /\ UNCHANGED <<thrVars, klog>>
    /\ UNCHANGED <<exitStatus, env, mntVars, power, clears, loopi, inVars, mkdirs,
                   netVars, sessVars, hVars>>

\* get_network_devices: thread::sleep of 0.25 s, then the next read
SleepNetworkDevices ==
    /\ pc = "get_network_devices_sleep"
    /\ pc' = "get_network_devices"
    /\ UNCHANGED <<exitStatus, env, mntVars, klog, power, clears, loopi, inVars, mkdirs,
                   netVars, thrVars, sessVars, hVars>>

\* the kernel registers the virtio_net driver while get_network_devices waits
RegisterVirtioNet ==
    /\ virtio_net = "absent"
    /\ virtio_net' = "present"
    /\ UNCHANGED <<pc, exitStatus, env, mntVars, klog, power, clears, loopi,
                   inVars, mkdirs, thrVars, sessVars, hVars>>

\* the join loop of main(): handle.join() of the next handle
Join ==
    /\ pc = "join"
    /\ IF loopi > Len(handles)
       THEN /\ loopi' = 1
            /\ pc' = After("join")
       ELSE /\ Joinable(handles[loopi])
            /\ loopi' = loopi + 1
            /\ UNCHANGED pc
    /\ UNCHANGED <<exitStatus, env, mntVars, klog, power, clears, inVars, mkdirs, netVars, thrVars,
                   sessVars, hVars>>

-----------------------------------------------------------------------------
(* Threads. *)

\* the vsock proxy thread: the 9p mount asked for by virtme_vsockmount
SocatMount ==
    /\ task["socat"] = "vsockmount"
    /\ pc \notin {"exited", "panicked", "replaced", "off"}
    /\ IF EnvHas(env, "virtme_vsockmount")
       THEN \E res \in MountResults :
               /\ mkdirs' = do_mkdir(<<EnvGet(env, "virtme_vsockmount")>>,
                                      Len(mountLog))
               /\ do_mount("setup_socat_console", "virtme.vsockmount",
                           EnvGet(env, "virtme_vsockmount"), "9p",
                           "version=9p2000.L,trans=virtio,access=any", res)
       ELSE UNCHANGED <<mntVars, mkdirs>>
    /\ task' = [task EXCEPT !["socat"] = "running"]
    /\ UNCHANGED <<pc, exitStatus, env, klog, power, clears, loopi, inVars, netVars, handles,
                   netdevs, sessVars, hVars>>

\* a thread whose body is a sequence of run_cmd calls returns
\* (run_udevd, setup_network_lo, get_network_handle)
CmdTaskRun(t) ==
    /\ task[t] = "running"
    /\ t # "socat"
    /\ pc \notin {"exited", "panicked", "replaced", "off"}
    /\ task' = [task EXCEPT ![t] = "done"]
    /\ UNCHANGED <<pc, exitStatus, env, mntVars, klog, power, clears, loopi, inVars, mkdirs, netVars,
                   handles, netdevs, sessVars, hVars>>

\* run_misc_services: symlink_fds
MiscSymlinkFds ==
    /\ task["misc"] = "symlink_fds"
    /\ pc \notin {"exited", "panicked", "replaced", "off"}
    /\ LET st == symlink_fds([dev |-> dev, klog |-> klog], ports, 1)
       IN  /\ dev' = st.dev
           /\ klog' = st.klog
    /\ task' = [task EXCEPT !["misc"] = "initmounts"]
    /\ UNCHANGED <<pc, exitStatus, env, mntVars, power, clears, loopi, inVars, mkdirs, netVars,
                   handles, netdevs, consdev, opened, ports, scriptFile, launched,
                   retFile, hVars>>

\* the pass-through requests, in the order env::vars() yields them
InitmountRequests == EnvWithPrefix(env, "virtme_initmount")

\* '_' replaced by '.' in the key of a pass-through request
RECURSIVE ReplaceUnderscore(_)
ReplaceUnderscore(s) ==
    IF Len(s) = 0 THEN ""
    ELSE (IF SubSeq(s, 1, 1) = "_" THEN "." ELSE SubSeq(s, 1, 1))
            \o ReplaceUnderscore(SubSeq(s, 2, Len(s)))

RECURSIVE InitmountAttempts(_, _)
\* the mount attempts of mount_virtme_initmounts
InitmountAttempts(reqs, i) ==
    IF i > Len(reqs) THEN <<>>
    ELSE <<Attempt("mount_virtme_initmounts", ReplaceUnderscore(reqs[i][1]),
                   reqs[i][2], "9p", "version=9p2000.L,trans=virtio,access=any")>>
            \o InitmountAttempts(reqs, i + 1)

\* run_misc_services: mount_virtme_initmounts, every request in turn
MiscInitmounts ==
    /\ task["misc"] = "initmounts"
    /\ pc \notin {"exited", "panicked", "replaced", "off"}
    /\ LET attempts == InitmountAttempts(InitmountRequests, 1)
       IN  IF attempts = <<>>
           THEN UNCHANGED <<mntVars, mkdirs>>
           ELSE \E res \in MountResults :
                   /\ mountLog' = mountLog \o attempts
                   /\ mkdirs' = mkdirs \o
                         [i \in 1..Len(attempts) |->
                            [path |-> attempts[i].target,
                             at |-> Len(mountLog) + i - 1]]
                   /\ lastMount' = [target |-> attempts[Len(attempts)].target,
                                    res |-> res,
                                    logged |-> res # "ok" /\ res # "ENOENT"]
                   /\ UNCHANGED procMounted
    /\ task' = [task EXCEPT !["misc"] = "system_files"]
    /\ UNCHANGED <<pc, exitStatus, env, klog, power, clears, loopi, inVars, netVars, handles,
                   netdevs, sessVars, hVars>>

\* run_misc_services: fix_packaging_files, override_system_files, run_sshd,
\* run_snapd; the bind mount of the fstab stand-in stands for their bind mounts
MiscSystemFiles ==
    /\ task["misc"] = "system_files"
    /\ pc \notin {"exited", "panicked", "replaced", "off"}
    /\ mkdirs' = do_mkdir(<<"/run/tmp/lvm">>, Len(mountLog))
    /\ \E res \in MountResults :
          do_mount("override_system_files", "/run/tmp/fstab", "/etc/fstab",
                   "", "", res)
    /\ task' = [task EXCEPT !["misc"] = "done"]
    /\ UNCHANGED <<pc, exitStatus, env, klog, power, clears, loopi, inVars, netVars, handles,
                   netdevs, sessVars, hVars>>

-----------------------------------------------------------------------------
(* main(): user session. *)

\* set_cwd: a failing chdir is only logged
SetCwd ==
    /\ pc = "set_cwd"
    /\ IF EnvHas(env, "virtme_chdir")
       THEN \E ok \in BOOLEAN :
               klog' = IF ok THEN klog
                       ELSE Append(klog, <<"error changing directory">>)
       ELSE UNCHANGED klog
    /\ pc' = After("set_cwd")
    /\ UNCHANGED <<exitStatus, env, mntVars, power, clears, loopi, inVars, mkdirs, netVars,
                   thrVars, sessVars, hVars>>

\* line.chars().nth(27) == Some('C')
IsActive(line) == Len(line) >= 28 /\ SubSeq(line, 28, 28) = "C"

\* line.split(' ').next(): the text before the first space, the whole line
\* if it has none
FirstToken(line) ==
    LET spaces == {i \in 1..Len(line) : SubSeq(line, i, i) = " "}
    IN  IF spaces = {} THEN line
        ELSE SubSeq(line, 1, (CHOOSE i \in spaces : \A j \in spaces : i <= j) - 1)

\* a scan of /proc/consoles that keeps the last active line: what
\* get_legacy_active_console must not do
get_legacy_active_console_last(file) ==
    IF file = None THEN None
    ELSE LET lines == file[1]
             active == {i \in DOMAIN lines : IsActive(lines[i])}
         IN  IF active = {} THEN None
             ELSE Some("/dev/" \o FirstToken(
                     lines[CHOOSE i \in active : \A j \in active : j <= i]))

\* get_legacy_active_console: file is None if /proc/consoles cannot be
\* opened, Some(lines) otherwise; the first active line gives the console
get_legacy_active_console(file) ==
    IF file = None THEN None
    ELSE LET lines == file[1]
             active == {i \in DOMAIN lines : IsActive(lines[i])}
         IN  IF active = {} THEN None
             ELSE Some("/dev/" \o FirstToken(
                     lines[CHOOSE i \in active : \A j \in active : i <= j]))

\* get_active_console: virtme_console wins, /proc/consoles is read only
\* without it
get_active_console(e, file) ==
    IF EnvHas(e, "virtme_console")
    THEN Some("/dev/" \o EnvGet(e, "virtme_console"))
    ELSE get_legacy_active_console(file)

\* what get_legacy_active_console may find in /proc/consoles
LegacyConsoles == {None, Some("/dev/ttyS0")}

\* a process started for the user: command, arguments, the environment it
\* inherits, how it was started and its exit status
Process(cmd, args, e, via, status, takeover) ==
    [cmd |-> cmd, args |-> args, env |-> e, via |-> via, status |-> status,
     takeover |-> takeover]

\* a system call made between fork and exec: its name, the descriptor it
\* takes from (or its request) and the descriptor slot it acts on
Call(name, from, slot) == [call |-> name, from |-> from, slot |-> slot]

\* a takeover that asks for the controlling tty before anything else: what
\* detach_from_terminal must not be
detach_tty_request_first(tty_fd) ==
    << Call("ioctl", "TIOCSCTTY", "0"),
       Call("setsid", "", ""),
       Call("close", "", "0"), Call("close", "", "1"), Call("close", "", "2"),
       Call("dup2", tty_fd, "0"),
       Call("dup2", tty_fd, "1"),
       Call("dup2", tty_fd, "2") >>

\* detach_from_terminal(tty_fd), run by run_shell between fork and exec
detach_from_terminal(tty_fd) ==
    << Call("setsid", "", ""),
       Call("close", "", "0"), Call("close", "", "1"), Call("close", "", "2"),
       Call("dup2", tty_fd, "0"),
       Call("ioctl", "TIOCSCTTY", "0"),
       Call("dup2", tty_fd, "1"),
       Call("dup2", tty_fd, "2") >>

\* the pre_exec closure of run_user_script
script_pre_exec ==
    << Call("setsid", "", ""),
       Call("close", "", "0"), Call("close", "", "1"), Call("close", "", "2"),
       Call("dup2", "tty_in", "0"),
       Call("ioctl", "TIOCSCTTY", "0"),
       Call("dup2", "tty_out", "1"),
       Call("dup2", "tty_err", "2") >>

\* setup_user_session up to the choice of the console; without a console
\* the process image is replaced by bash -l (exec returns only on failure)
SetupUserSession ==
    /\ pc = "setup_user_session"
    /\ \E legacy \in LegacyConsoles, exec_ok \in BOOLEAN :
          LET console == IF EnvHas(env, "virtme_console")
                         THEN Some("/dev/" \o EnvGet(env, "virtme_console"))
                         ELSE legacy
          IN  /\ (EnvHas(env, "virtme_console") => legacy = None)
              /\ IF console # None
                 THEN /\ exec_ok
                      /\ consdev' = console
                      /\ pc' = "configure_terminal"
                      /\ UNCHANGED <<klog, launched>>
                 ELSE /\ UNCHANGED consdev
                      /\ IF exec_ok
                         THEN /\ klog' = Append(klog, <<"failed to determine console">>)
                              /\ launched' = Append(launched,
                                     Process("bash", <<"-l">>, env, "exec", None, <<>>))
                              /\ pc' = "replaced"
                         ELSE /\ klog' = klog \o << <<"failed to determine console">>,
                                                   <<"failed to exec bash">> >>
                              /\ UNCHANGED launched
                              /\ pc' = After("setup_user_session")
    /\ UNCHANGED <<exitStatus, env, mntVars, power, clears, loopi, inVars, mkdirs, netVars,
                   thrVars, opened, ports, dev, scriptFile, retFile, hVars>>

\* configure_terminal: redirect_console expects the console to open; with
\* virtme_stty_con the result of running stty is unwrapped
ConfigureTerminal ==
    /\ pc = "configure_terminal"
    /\ \E open_ok \in BOOLEAN, stty_ok \in BOOLEAN :
          /\ (~open_ok \/ ~EnvHas(env, "virtme_stty_con") => stty_ok)
          /\ IF open_ok /\ stty_ok
             THEN /\ opened' = opened \cup {consdev[1]}
                  /\ pc' = "init_xdg_runtime_dir"
                  /\ UNCHANGED exitStatus
             ELSE /\ opened' = IF open_ok THEN opened \cup {consdev[1]} ELSE opened
                  /\ Panic
    /\ UNCHANGED <<env, mntVars, klog, power, clears, loopi, inVars, mkdirs, netVars, thrVars,
                   consdev, ports, dev, scriptFile, launched, retFile, hVars>>

\* init_xdg_runtime_dir(uid): uid is that of virtme_user if the user is known,
\* 0 otherwise
InitXdgRuntimeDir ==
    /\ pc = "init_xdg_runtime_dir"
    /\ \E uid \in {"0", "1000"} :
          /\ (~EnvHas(env, "virtme_user") => uid = "0")
          /\ mkdirs' = do_mkdir(<<"/run/user/" \o uid>>, Len(mountLog))
          /\ env' = EnvSet(env, "XDG_RUNTIME_DIR", "/run/user/" \o uid)
    /\ pc' = "setup_root_home"
    /\ UNCHANGED <<exitStatus, mntVars, klog, power, clears, loopi, inVars, netVars,
                   thrVars, sessVars, hVars>>

SetupRootHome ==
    /\ pc = "setup_root_home"
    /\ IF ~EnvHas(env, "virtme_root_user")
       THEN /\ mkdirs' = do_mkdir(<<"/run/tmp/roothome">>, Len(mountLog))
            /\ \E res \in MountResults :
                  do_mount("setup_root_home", "/run/tmp/roothome", "/root",
                           "", "", res)
            /\ env' = EnvSet(env, "HOME", "/run/tmp/roothome")
       ELSE /\ env' = EnvSet(env, "HOME", "/root")
            /\ UNCHANGED <<mntVars, mkdirs>>
    /\ pc' = "run_user_session"
    /\ UNCHANGED <<exitStatus, klog, power, clears, loopi, inVars, netVars, thrVars, sessVars, hVars>>

\* run_user_session up to setup_user_script: the console is expected to open
RunUserSession ==
    /\ pc = "run_user_session"
    /\ \E open_ok \in BOOLEAN :
          IF open_ok
          THEN pc' = "setup_user_script" /\ UNCHANGED exitStatus
          ELSE Panic
    /\ UNCHANGED <<env, mntVars, klog, power, clears, loopi, inVars, mkdirs, netVars, thrVars,
                   sessVars, hVars>>

\* setup_user_script: the script is created (expected to succeed) when one is
\* embedded in the command line, and run on the serial ports unless
\* virtme_graphics is set
SetupUserScript ==
    /\ pc = "setup_user_script"
    /\ LET cmd == IF ProcReadable THEN extract_user_script(cmdline) ELSE None
       IN  IF cmd = None
           THEN /\ pc' = "select_session"
                /\ UNCHANGED <<scriptFile, exitStatus>>
           ELSE \E created \in BOOLEAN :
                   IF created
                   THEN /\ scriptFile' = cmd
                        /\ pc' = IF ~EnvHas(env, "virtme_graphics")
                                 THEN "run_user_script" ELSE "select_session"
                        /\ UNCHANGED exitStatus
                   ELSE /\ Panic
                        /\ UNCHANGED scriptFile
    /\ UNCHANGED <<env, mntVars, klog, power, clears, loopi, inVars, mkdirs, netVars, thrVars,
                   consdev, opened, ports, dev, launched, retFile, hVars>>

\* run_user_script: the check of the five serial ports
RunUserScript ==
    /\ pc = "run_user_script"
    /\ \E ps \in PortChoices :
          /\ ports' = ps
          /\ IF ~ScriptPortsPresent(ps)
             THEN /\ klog' = Append(klog, <<"cannot find script I/O ports">>)
                  /\ pc' = "select_session"
             ELSE /\ pc' = "remap"
                  /\ UNCHANGED klog
    /\ UNCHANGED <<exitStatus, env, mntVars, power, clears, loopi, inVars, mkdirs, netVars, thrVars,
                   consdev, opened, dev, scriptFile, launched, retFile, hVars>>

\* run_user_script: the remap loop. Nothing touches /dev/virtme.ret before
\* this loop; what lies there is whatever the guest's /dev holds.
Remap ==
    /\ pc = "remap"
    /\ \E prior \in RetPriors :
          LET st == RemapFrom([dev |-> [dev EXCEPT !["/dev/virtme.ret"] = prior],
                               klog |-> klog], ports, 1)
          IN  /\ dev' = st.dev
              /\ klog' = st.klog
    /\ pc' = "open_ports"
    /\ UNCHANGED <<exitStatus, env, mntVars, power, clears, loopi, inVars, mkdirs, netVars, thrVars,
                   consdev, opened, ports, scriptFile, launched, retFile, hVars>>

\* run_user_script: the three ports the script talks to are expected to open
OpenPorts ==
    /\ pc = "open_ports"
    /\ \E open_ok \in BOOLEAN :
          IF open_ok
          THEN /\ opened' = opened \cup {PortPath("virtme.stdin"),
                                         PortPath("virtme.stdout"),
                                         PortPath("virtme.stderr")}
               /\ pc' = "run_script"
               /\ UNCHANGED exitStatus
          ELSE /\ Panic
               /\ UNCHANGED opened
    /\ UNCHANGED <<env, mntVars, klog, power, clears, loopi, inVars, mkdirs, netVars, thrVars,
                   consdev, ports, dev, scriptFile, launched, retFile, hVars>>

\* run_user_script: the command is chosen, the environment is stripped and
\* the script is run to completion (expected to start)
RunScript ==
    /\ pc = "run_script"
    /\ LET user == IF EnvHas(env, "virtme_user") THEN EnvGet(env, "virtme_user") ELSE ""
           cmd == IF user # "" THEN "su" ELSE "/bin/sh"
           args == IF user # "" THEN <<user, "-c", USER_SCRIPT>> ELSE <<USER_SCRIPT>>
           stripped == clear_virtme_envs(env)
       IN  /\ env' = stripped
           /\ clears' = clears + 1
           /\ \E started \in BOOLEAN, status \in ExitStatuses :
                 IF started
                 THEN /\ launched' = Append(launched,
                             Process(cmd, args, stripped, "spawn", status,
                                     script_pre_exec))
                      /\ pc' = "channel_ret"
                      /\ UNCHANGED exitStatus
                 ELSE /\ status = None
                      /\ Panic
                      /\ UNCHANGED launched
    /\ UNCHANGED <<mntVars, klog, power, loopi, inVars, mkdirs, netVars, thrVars,
                   consdev, opened, ports, dev, scriptFile, retFile, hVars>>

\* where a write through /dev/virtme.ret lands
RetTarget(d) ==
    IF d["/dev/virtme.ret"].kind = "link" THEN d["/dev/virtme.ret"].target
    ELSE "/dev/virtme.ret"

\* a run_user_script that returns to run_user_session after the script
\* instead of powering off: what ChannelRet must not be
ChannelRetThenReturn ==
    /\ pc = "channel_ret"
    /\ retFile' = IF Exists("/dev/virtme.ret", dev, ports)
                  THEN [state |-> "written",
                        text |-> RetText(launched[Len(launched)].status)]
                  ELSE [state |-> "open_failed", text |-> <<>>]
    /\ pc' = "select_session"
    /\ UNCHANGED <<exitStatus, env, mntVars, klog, power, clears, loopi, inVars, mkdirs, netVars,
                   thrVars, consdev, opened, ports, dev, scriptFile, launched, hVars>>

\* run_user_script: the exit status is written through /dev/virtme.ret if it
\* opens for writing (the write is expected to succeed), then poweroff
ChannelRet ==
    /\ pc = "channel_ret"
    /\ IF Exists("/dev/virtme.ret", dev, ports)
       THEN \E wrote \in BOOLEAN :
               IF wrote
               THEN /\ retFile' = [state |-> "written",
                                   text |-> RetText(launched[Len(launched)].status)]
                    /\ pc' = "poweroff"
                    /\ UNCHANGED exitStatus
               ELSE /\ Panic
                    /\ UNCHANGED retFile
       ELSE /\ retFile' = [state |-> "open_failed", text |-> <<>>]
            /\ pc' = "poweroff"
            /\ UNCHANGED exitStatus
    /\ UNCHANGED <<env, mntVars, klog, power, clears, loopi, inVars, mkdirs, netVars, thrVars,
                   consdev, opened, ports, dev, scriptFile, launched, hVars>>

\* a session choice that starts the graphical session whatever the
\* environment says: what run_user_session must not do
SelectSessionAlwaysGui ==
    /\ pc = "select_session"
    /\ pc' = "run_user_gui"
    /\ UNCHANGED <<exitStatus, env, mntVars, klog, power, clears, loopi, inVars, mkdirs, netVars,
                   thrVars, sessVars, hVars>>

\* run_user_session after setup_user_script: GUI or shell
SelectSession ==
    /\ pc = "select_session"
    /\ pc' = IF EnvHas(env, "virtme_graphics") THEN "run_user_gui" ELSE "run_user_shell"
    /\ UNCHANGED <<exitStatus, env, mntVars, klog, power, clears, loopi, inVars, mkdirs, netVars,
                   thrVars, sessVars, hVars>>

\* run_user_gui: returns early if xinitrc cannot be written, otherwise runs
\* xinit under bash (expected to start) and waits for it
RunUserGui ==
    /\ pc = "run_user_gui"
    /\ \E created \in BOOLEAN, started \in BOOLEAN :
          LET args == IF EnvHas(env, "virtme_user")
                      THEN <<"-l", "-c", "su " \o EnvGet(env, "virtme_user")
                                           \o " -c 'xinit /run/tmp/.xinitrc'">>
                      ELSE <<"-l", "-c", "xinit /run/tmp/.xinitrc">>
          IN  IF ~created
              THEN /\ started
                   /\ klog' = Append(klog, <<"failed to generate", "/run/tmp/.xinitrc">>)
                   /\ pc' = After("setup_user_session")
                   /\ UNCHANGED <<launched, exitStatus>>
              ELSE IF started
              THEN /\ launched' = Append(launched,
                          Process("bash", args, env, "spawn", Some(0),
                                  detach_from_terminal("tty_fd")))
                   /\ pc' = After("setup_user_session")
                   /\ UNCHANGED <<klog, exitStatus>>
              ELSE /\ Panic
                   /\ UNCHANGED <<klog, launched>>
    /\ UNCHANGED <<env, mntVars, power, clears, loopi, inVars, mkdirs, netVars, thrVars,
                   consdev, opened, ports, dev, scriptFile, retFile, hVars>>

\* run_user_shell: runs bash (expected to start) and waits for it
RunUserShell ==
    /\ pc = "run_user_shell"
    /\ \E started \in BOOLEAN :
          LET args == IF EnvHas(env, "virtme_user")
                      THEN <<"-l", "-c", "su " \o EnvGet(env, "virtme_user")>>
                      ELSE <<"-l">>
          IN  IF started
              THEN /\ launched' = Append(launched,
                          Process("bash", args, env, "spawn", Some(0),
                                  detach_from_terminal("tty_fd")))
                   /\ pc' = After("setup_user_session")
                   /\ UNCHANGED exitStatus
              ELSE /\ Panic
                   /\ UNCHANGED launched
    /\ UNCHANGED <<env, mntVars, klog, power, clears, loopi, inVars, mkdirs, netVars, thrVars,
                   consdev, opened, ports, dev, scriptFile, retFile, hVars>>

-----------------------------------------------------------------------------
(* poweroff *)

\* a poweroff that goes to the request without flushing: what poweroff
\* must not do
SyncOmitted ==
    /\ pc = "poweroff"
    /\ pc' = "reboot"
    /\ UNCHANGED <<exitStatus, env, mntVars, klog, power, clears, loopi, inVars, mkdirs,
                   netVars, thrVars, sessVars, hVars>>

\* poweroff: libc::sync()
Sync ==
    /\ pc = "poweroff"
    /\ power' = "synced"
    /\ pc' = "reboot"
    /\ UNCHANGED <<exitStatus, env, mntVars, klog, clears, loopi, inVars, mkdirs, netVars, thrVars,
                   sessVars, hVars>>

\* poweroff: reboot(RB_POWER_OFF); the machine goes off, or the request
\* fails and the process exits with status 1
Reboot ==
    /\ pc = "reboot"
    /\ power' = "requested"
    /\ \E ok \in BOOLEAN :
          IF ok
          THEN /\ pc' = "off"
               /\ exitStatus' = Some(0)
               /\ UNCHANGED klog
          ELSE /\ pc' = "exited"
               /\ exitStatus' = Some(1)
               /\ klog' = Append(klog, <<"error powering off">>)
    /\ UNCHANGED <<env, mntVars, clears, loopi, inVars, mkdirs, netVars, thrVars, sessVars, hVars>>

-----------------------------------------------------------------------------
(* Specifications. *)

Next ==
    \/ CheckInitPid
    \/ ConfigureEnvironment
    \/ ConfigureHostname
    \/ MountKernelFilesystems
    \/ MountCgroupfs
    \/ MountCgroupLegacy
    \/ ConfigureLimits
    \/ MountVirtmeOverlays
    \/ RetryVirtmeOverlay
    \/ MountSysFilesystems
    \/ MountKernelModules
    \/ RunSystemdTmpfiles
    \/ SetupSocatConsole
    \/ RunUdevd
    \/ RunMiscServices
    \/ SetupNetwork
    \/ GetNetworkDevices
    \/ SleepNetworkDevices
    \/ RegisterVirtioNet
    \/ Join
    \/ SocatMount
    \/ \E t \in TaskIds : CmdTaskRun(t)
    \/ MiscSymlinkFds
    \/ MiscInitmounts
    \/ MiscSystemFiles
    \/ SetCwd
    \/ SetupUserSession
    \/ ConfigureTerminal
    \/ InitXdgRuntimeDir
    \/ SetupRootHome
    \/ RunUserSession
    \/ SetupUserScript
    \/ RunUserScript
    \/ Remap
    \/ OpenPorts
    \/ RunScript
    \/ ChannelRet
    \/ SelectSession
    \/ RunUserGui
    \/ RunUserShell
    \/ Sync
    \/ Reboot

Spec == Init /\ [][Next]_vars

-----------------------------------------------------------------------------
(* SpecExtract: extract_user_script on synthetic boot-parameter strings. *)

MaxTextLen == 3

\* bytes the texts are built from: 'H', 'i', '\n', and the two bytes of U+00E9
TextBytes == {72, 105, 10, 195, 169}

RECURSIVE SeqsUpTo(_, _)
SeqsUpTo(S, n) ==
    IF n = 0 THEN {<<>>}
    ELSE LET shorter == SeqsUpTo(S, n - 1)
         IN  shorter \cup {Append(t, x) : t \in shorter, x \in S}

Hello == Bytes("Hello") \o <<10>>

\* the texts T: every valid UTF-8 string over TextBytes up to MaxTextLen
\* bytes, and the text of test_extract_user_script
Texts == {t \in SeqsUpTo(TextBytes, MaxTextLen) : IsUtf8(t)} \cup {Hello}

Prefixes ==
    { <<>>,
      Bytes("other=stuff "),
      Bytes("quiet ") \o Grave \o Bytes(" virtme.exec= "),
      Bytes("virtme.exec=") \o Grave \o Bytes("QUJD") \o Grave \o Bytes(" ") }

Suffixes ==
    { <<>>,
      Bytes(" is=ignored"),
      Grave \o Bytes("x"),
      Bytes(" virtme.exec=") \o Grave \o Bytes("QQ==") \o Grave }

\* the synthetic boot-parameter string of an input
Embed(in) ==
    in.prefix \o start_marker \o Base64Encode(in.text) \o end_marker \o in.suffix

Extract ==
    /\ ~xout.done
    /\ xout' = [done |-> TRUE, result |-> extract_user_script(Embed(xin))]
    /\ UNCHANGED <<xin, bootVars>>

\* the boot variables of SpecExtract: a process that has not started
InitExtract ==
    /\ pc = "extract_user_script"
    /\ exitStatus = None
    /\ env = <<>>
    /\ cmdline = <<>>
    /\ exe = ""
    /\ mountLog = <<>>
    /\ lastMount = NoMount
    /\ procMounted = FALSE
    /\ klog = <<>>
    /\ task = [t \in TaskIds |-> "unspawned"]
    /\ handles = <<>>
    /\ netdevs = <<>>
    /\ virtio_net = "unread"
    /\ mkdirs = <<>>
    /\ consdev = None
    /\ opened = {}
    /\ ports = {}
    /\ dev = [d \in Dsts |-> Absent]
    /\ scriptFile = NoFile
    /\ launched = <<>>
    /\ retFile = Untouched
    /\ power = "on"
    /\ clears = 0
    /\ loopi = 1
    /\ xin \in [prefix : Prefixes, text : Texts, suffix : Suffixes]
    /\ xout = NoOutput

NextExtract == Extract

SpecExtract == InitExtract /\ [][NextExtract]_vars

-----------------------------------------------------------------------------
(* SpecConsole: get_active_console on synthetic /proc/consoles files. *)

\* lines of a synthetic /proc/consoles
MaxLines == 2

\* lines as the kernel prints them (the flags start at offset 26), a line
\* shorter than 28 characters, and a line that begins with a space
ConsoleLines ==
    { "tty0                 -WU (E  p  )    4:1",
      "ttyS0                -W- (EC p a)    4:64",
      "hvc0                 -W- ( C p  )  229:0",
      "ttyS1 -W- (EC)",
      " netcon              -W- (EC    )" }

GetActiveConsole ==
    /\ ~xout.done
    /\ xout' = [done |-> TRUE, result |-> get_active_console(xin.env, xin.file)]
    /\ UNCHANGED <<xin, bootVars>>

\* the boot variables of SpecConsole: a process that has not started
InitConsole ==
    /\ pc = "get_active_console"
    /\ exitStatus = None
    /\ env = <<>>
    /\ cmdline = <<>>
    /\ exe = ""
    /\ mountLog = <<>>
    /\ lastMount = NoMount
    /\ procMounted = FALSE
    /\ klog = <<>>
    /\ task = [t \in TaskIds |-> "unspawned"]
    /\ handles = <<>>
    /\ netdevs = <<>>
    /\ virtio_net = "unread"
    /\ mkdirs = <<>>
    /\ consdev = None
    /\ opened = {}
    /\ ports = {}
    /\ dev = [d \in Dsts |-> Absent]
    /\ scriptFile = NoFile
    /\ launched = <<>>
    /\ retFile = Untouched
    /\ power = "on"
    /\ clears = 0
    /\ loopi = 1
    /\ xin \in [env : {Env0, Env1, Env3},
                 file : {None} \cup {Some(f) : f \in SeqsUpTo(ConsoleLines, MaxLines)}]
    /\ xout = NoOutput

SpecConsole == InitConsole /\ [][GetActiveConsole]_vars

-----------------------------------------------------------------------------
(* SpecTwice: mount_kernel_filesystems applied twice in sequence. *)

\* PID 1 before its first mount; /proc may have been mounted for it already
InitTwice ==
    /\ pc = "first_application"
    /\ exitStatus = None
    /\ env \in Envs
    /\ cmdline = CmdPlain
    /\ exe \in Exes
    /\ mountLog = <<>>
    /\ lastMount = NoMount
    /\ procMounted \in BOOLEAN
    /\ klog = <<>>
    /\ task = [t \in TaskIds |-> "unspawned"]
    /\ handles = <<>>
    /\ netdevs = <<>>
    /\ virtio_net = "unread"
    /\ mkdirs = <<>>
    /\ consdev = None
    /\ opened = {}
    /\ ports = {}
    /\ dev = [d \in Dsts |-> Absent]
    /\ scriptFile = NoFile
    /\ launched = <<>>
    /\ retFile = Untouched
    /\ power = "on"
    /\ clears = 0
    /\ loopi = 1
    /\ xin = NoInput
    /\ xout = NoOutput

FirstApplication == KernelMountStep("first_application", "second_application")

SecondApplication == KernelMountStep("second_application", "applied_twice")

NextTwice ==
    \/ FirstApplication
    \/ SecondApplication

SpecTwice == InitTwice /\ [][NextTwice]_vars

-----------------------------------------------------------------------------
(* Properties of the boot (Spec) and of extract_user_script (SpecExtract). *)

\* C1: on every execution that passes the PID-1 check and ends in one of the
\* boot outcomes (a process was started for the user, or the console could
\* not be determined), the orchestrator stops only after the power-off
\* request has been issued.
C1_PoweroffEndsEveryOutcome ==
    (/\ pc \in {"exited", "panicked", "replaced", "off"}
     /\ \/ launched # <<>>
        \/ \E i \in DOMAIN klog : klog[i] = <<"failed to determine console">>)
    => power = "requested"

\* C2: every process started for the user (the script, the interactive
\* bash, the GUI shell, the degraded bash) is given an environment without
\* any variable whose name starts with virtme_.
C2_NoPrivateVariableAtLaunch ==
    \A i \in DOMAIN launched :
        \A n \in EnvNames(launched[i].env) : ~StartsWith(n, "virtme_")

\* C3: past the join loop (set_cwd, setup_user_session, the session and
\* poweroff) no thread spawned for service bring-up (udevd, misc services,
\* loopback, one DHCP thread per device) is still running.
C3_JoinBarrier ==
    pc \in {"set_cwd", "setup_user_session", "configure_terminal",
            "init_xdg_runtime_dir", "setup_root_home", "run_user_session",
            "setup_user_script", "run_user_script", "remap", "open_ports",
            "run_script", "channel_ret", "select_session", "run_user_gui",
            "run_user_shell", "poweroff", "reboot", "off", "replaced"}
    => /\ \A t \in TaskIds \ {"socat"} : task[t] \in {"unspawned", "done"}
       /\ \A i \in DOMAIN handles : task[handles[i]] = "done"
       /\ task["misc"] = "done"
       /\ task["lo"] = "done"

\* C3 happens: the session is being set up after a udevd thread, the misc
\* thread, the loopback thread and a DHCP thread were spawned and joined
C3_Witness ==
    /\ pc = "setup_user_session"
    /\ Len(handles) = 4
    /\ task[DhcpTask(1)] = "done"
    /\ task["udevd"] = "done"

\* C4: once the script has run on the serial ports and power-off has been
\* entered, the exit status (the code in decimal, -1 without a code) has
\* been written through /dev/virtme.ret to the return-code port.
C4_ExitCodeDeliveredBeforePoweroff ==
    (/\ power # "on"
     /\ \E i \in DOMAIN launched : launched[i].cmd \in {"su", "/bin/sh"})
    => /\ retFile.state = "written"
       /\ RetTarget(dev) = PortPath("virtme.ret")
       /\ "virtme.ret" \in ports
       /\ retFile.text =
             LET status == launched[Len(launched)].status
             IN  CASE status = None -> Bytes("-1")
                   [] status = Some(0) -> Bytes("0")
                   [] status = Some(255) -> Bytes("255")

\* C5: when one of the five checked ports is missing, run_user_script only
\* logs the condition and returns (no port opened, no symlink changed,
\* environment kept, no script run, no power-off of its own), and the
\* session continues with the interactive shell on the console.
C5_FallbackWithoutPorts ==
    [][LET missing(ps) == ~(CheckedPorts \subseteq ps)
           fallback(log) ==
               \E i \in DOMAIN log : log[i] = <<"cannot find script I/O ports">>
       IN  /\ (pc = "run_user_script" /\ pc' # pc /\ missing(ports'))
                 => /\ pc' = "select_session"
                    /\ klog' = Append(klog, <<"cannot find script I/O ports">>)
                    /\ fallback(klog')
                    /\ UNCHANGED <<opened, dev, env, clears, launched, retFile,
                                   power, exitStatus>>
           /\ (pc = "run_user_script" /\ pc' # pc /\ ~missing(ports'))
                 => ~fallback(klog')
           /\ (fallback(klog) /\ pc = "select_session" /\ pc' # pc)
                 => pc' = "run_user_shell"
           /\ fallback(klog)
                 => /\ UNCHANGED <<opened, dev, env, clears, retFile, ports>>
                    /\ opened \cap {PortPath(p) : p \in AllPorts} = {}
                    /\ clears = 0
                    /\ retFile = Untouched
                    /\ \A i \in DOMAIN launched' : launched'[i].cmd = "bash"
                    /\ (power' # "on" => launched # <<>>)
                    /\ pc' \notin {"remap", "open_ports", "run_script",
                                   "channel_ret", "run_user_gui"}
      ]_vars

\* C5 happens: virtme.dev_stderr alone is missing, the fallback was logged
\* and the interactive shell is about to run
C5_Witness ==
    /\ pc = "run_user_shell"
    /\ ports = AllPorts \ {"virtme.dev_stderr"}
    /\ klog[Len(klog)] = <<"cannot find script I/O ports">>

\* C6 as stated: for every text T and every surrounding boot-parameter
\* text, extract_user_script of prefix + marker + base64(T) + backtick +
\* suffix is T.
C6_RoundTripAnySurrounding ==
    xout.done => xout.result = Some(xin.text)

\* C6: for every text T, every suffix and every prefix that does not itself
\* contain the marker, extract_user_script of prefix + marker + base64(T) +
\* backtick + suffix is T; with a marker in the prefix the result is what
\* follows the first marker, not T.
C6_RoundTripFirstMarker ==
    xout.done =>
        LET marked == Contains(xin.prefix, start_marker)
        IN  /\ ~marked => xout.result = Some(xin.text)
            /\ marked => xout.result = Some(Bytes("ABC"))

\* C6 happens: the example of test_extract_user_script
C6_Witness ==
    /\ xout.done
    /\ xin.prefix = Bytes("other=stuff ")
    /\ xin.suffix = Bytes(" is=ignored")
    /\ xin.text = Hello
    /\ Embed(xin) = CmdExample
    /\ xout.result = Some(Bytes("Hello") \o <<10>>)

\* C7: when /proc/cmdline does not contain the marker, extract_user_script
\* is None, setup_user_script fails nothing and goes straight to the
\* interactive session, no script file is created and no serial port is
\* looked up, linked or opened.
C7_NoMarkerNoScript ==
    [][~Contains(cmdline, start_marker)
       => /\ extract_user_script(cmdline) = None
          /\ (pc = "setup_user_script" /\ pc' # pc)
                => pc' = "select_session" /\ exitStatus' = None
          /\ pc' \notin {"run_user_script", "remap", "open_ports", "run_script",
                         "channel_ret"}
          /\ scriptFile' = NoFile
          /\ ports' = {}
          /\ opened' \cap {PortPath(p) : p \in AllPorts} = {}
          /\ \A d \in Dsts : dev'[d].target \notin {PortPath(p) : p \in AllPorts}
          /\ retFile' = Untouched
          /\ \A i \in DOMAIN launched' : launched'[i].cmd = "bash"
      ]_vars

\* C7 happens: a command line with virtme.vsockexec but no virtme.exec
\* reached the interactive shell
C7_Witness ==
    /\ pc = "run_user_shell"
    /\ cmdline = CmdVsock
    /\ scriptFile = NoFile

\* C8: the step that strips the environment leaves no variable whose name
\* starts with virtme_, whatever their number before, keeps every other
\* variable, and the child spawned afterwards inherits none of them; none
\* comes back later.
C8_ClearRemovesEveryPrivateVariable ==
    [][LET private(e) == {i \in DOMAIN e : /\ Len(e[i][1]) >= 7
                                            /\ SubSeq(e[i][1], 1, 7) = "virtme_"}
           others(e) == {e[i] : i \in DOMAIN e \ private(e)}
       IN  /\ clears' # clears
                => /\ private(env') = {}
                   /\ others(env') = others(env)
                   /\ launched' # launched
                         => private(launched'[Len(launched')].env) = {}
           /\ clears > 0 => private(env') = {}
      ]_vars

\* C8 happens: two private variables were stripped before the script was
\* spawned, and the variable named virtme (no underscore) was kept
C8_Witness ==
    /\ clears = 1
    /\ launched # <<>>
    /\ EnvHas(env, "virtme")
    /\ ~EnvHas(env, "virtme_hostname")
    /\ EnvHas(launched[1].env, "TERM")

\* C9 as stated: no overlay or pass-through mount is attempted before the
\* last mount of the system table.
C9_DynamicAfterSystemTable ==
    \A i \in DOMAIN mountLog, j \in DOMAIN mountLog :
        (/\ mountLog[i].by \in {"mount_virtme_overlays", "mount_virtme_initmounts"}
         /\ mountLog[j].by = "mount_sys_filesystems")
        => j < i

\* C9: the mount phases run in the order kernel table (all entries, /run
\* unless skipped), overlay requests (all), system table (all entries),
\* and, in the misc thread, pass-through requests (all): overlays are
\* attempted before the first system-table mount, pass-through mounts after
\* the last.
C9_MountPhaseOrder ==
    LET rank(a) == CASE a.by = "mount_kernel_filesystems" -> 1
                     [] a.by = "mount_virtme_overlays" -> 2
                     [] a.by = "mount_sys_filesystems" -> 3
                     [] a.by = "mount_virtme_initmounts" -> 4
                     [] OTHER -> 0
        tried(by, target) ==
            \E i \in DOMAIN mountLog :
                mountLog[i].by = by /\ mountLog[i].target = target
        started(by) == \E i \in DOMAIN mountLog : mountLog[i].by = by
        kernel_done ==
            \A k \in DOMAIN KERNEL_MOUNTS :
                \/ tried("mount_kernel_filesystems", KERNEL_MOUNTS[k].target)
                \/ /\ KERNEL_MOUNTS[k].target = "/run"
                   /\ \E i \in DOMAIN klog :
                         klog[i] = <<"/run previously mounted, skipping">>
        overlays_done ==
            \A k \in DOMAIN env :
                StartsWith(env[k][1], "virtme_rw_overlay")
                    => tried("mount_virtme_overlays", env[k][2])
        system_done ==
            \A k \in DOMAIN SYSTEM_MOUNTS :
                tried("mount_sys_filesystems", SYSTEM_MOUNTS[k].target)
        initmounts_done ==
            \A k \in DOMAIN env :
                StartsWith(env[k][1], "virtme_initmount")
                    => tried("mount_virtme_initmounts", env[k][2])
        phased(a) == rank(a) # 0
        phases == SelectSeq(mountLog, phased)
    IN  /\ \A i \in 1..(Len(phases) - 1) : rank(phases[i]) <= rank(phases[i + 1])
        /\ started("mount_virtme_overlays") => kernel_done
        /\ started("mount_sys_filesystems") => kernel_done /\ overlays_done
        /\ started("mount_virtme_initmounts") => system_done
        /\ (task["misc"] = "done" /\ clears = 0)
              => kernel_done /\ overlays_done /\ system_done /\ initmounts_done

\* C9 happens: an overlay, the system table and a pass-through mount were
\* all attempted and the misc thread has finished
C9_Witness ==
    /\ task["misc"] = "done"
    /\ \E i \in DOMAIN mountLog, j \in DOMAIN mountLog, k \in DOMAIN mountLog :
          /\ i < j /\ j < k
          /\ mountLog[i].by = "mount_virtme_overlays"
          /\ mountLog[j].by = "mount_sys_filesystems"
          /\ mountLog[k].by = "mount_virtme_initmounts"

\* C10: a failed mount, that of /proc included, never makes the boot panic:
\* the main thread has not panicked with /proc attempted and not mounted.
C10_MountFailureNeverAborts ==
    ~(/\ pc = "panicked"
      /\ ~procMounted
      /\ \E i \in DOMAIN mountLog : mountLog[i].target = "/proc")

\* C11: applying the kernel mount table twice in sequence never panics or
\* exits; every failed mount is either logged or, for ENOENT, suppressed;
\* and both applications visit every entry of the table (each entry is
\* attempted twice, /run is attempted or skipped twice).
C11_KernelTableTwice ==
    LET tried(target) ==
            Cardinality({i \in DOMAIN mountLog : mountLog[i].target = target})
        skipped ==
            Cardinality({i \in DOMAIN klog :
                            klog[i] = <<"/run previously mounted, skipping">>})
    IN  /\ pc \in {"first_application", "second_application", "applied_twice"}
        /\ exitStatus = None
        /\ power = "on"
        /\ lastMount.logged = (lastMount.res \notin {"ok", "ENOENT"})
        /\ pc = "second_application"
              => \A k \in DOMAIN KERNEL_MOUNTS :
                    tried(KERNEL_MOUNTS[k].target)
                       + (IF KERNEL_MOUNTS[k].target = "/run" THEN skipped ELSE 0)
                    = 1 + (IF k < loopi THEN 1 ELSE 0)
        /\ pc = "applied_twice"
              => /\ \A k \in DOMAIN KERNEL_MOUNTS :
                       tried(KERNEL_MOUNTS[k].target)
                          + (IF KERNEL_MOUNTS[k].target = "/run" THEN skipped ELSE 0)
                       = 2
                 /\ Len(mountLog) + skipped = 2 * Len(KERNEL_MOUNTS)

\* C11 happens: the table was applied twice, all sixteen mounts were
\* attempted and the last one failed with EBUSY and was logged
C11_Witness ==
    /\ pc = "applied_twice"
    /\ Len(mountLog) = 16
    /\ lastMount = [target |-> "/sys/kernel/security", res |-> "EBUSY", logged |-> TRUE]

\* C12: with /proc mounted, the process ends only by the power-off
\* transition or with status 1 from the PID-1 check or from a failed
\* power-off request; no failed join, open, spawn or write ends it.
C12_ExitOnlyByPoweroffOrStatusOne ==
    (procMounted /\ exitStatus # None)
    => \/ pc = "off" /\ power = "requested"
       \/ /\ pc = "exited"
          /\ exitStatus = Some(1)
          /\ \/ klog[Len(klog)] = <<"must be run as PID 1">>
             \/ klog[Len(klog)] = <<"error powering off">> /\ power = "requested"

\* C13: a process that is not PID 1 is refused in the first step of main()
\* and exits with status 1 at once: no environment variable has been set,
\* no mount attempted, no thread or process started, no power-off
\* requested, and no step follows the exit.
C13_NotPidOneAbortsAtOnce ==
    [][LET refused(log) ==
               \E i \in DOMAIN log : log[i] = <<"must be run as PID 1">>
       IN  /\ ~refused(klog)
           /\ refused(klog')
                 => /\ pc = "check_init_pid"
                    /\ pc' = "exited"
                    /\ exitStatus' = Some(1)
                    /\ klog' = << <<"must be run as PID 1">> >>
                    /\ env' = env
                    /\ ~EnvHas(env', "PATH")
                    /\ mountLog' = <<>>
                    /\ procMounted' = FALSE
                    /\ \A t \in TaskIds : task'[t] = "unspawned"
                    /\ handles' = <<>>
                    /\ launched' = <<>>
                    /\ scriptFile' = NoFile
                    /\ power' = "on"
           /\ (pc = "check_init_pid" /\ ~refused(klog'))
                 => pc' = "configure_environment" /\ exitStatus' = None
      ]_vars

\* C13 happens: the process was not PID 1 and has exited with status 1
C13_Witness ==
    /\ pc = "exited"
    /\ exitStatus = Some(1)
    /\ klog = << <<"must be run as PID 1">> >>
    /\ env = Env2
    /\ power = "on"

C15_TtyRequestAfterAllDuplications ==
    \A i \in DOMAIN launched :
        LET s == launched[i].takeover
            at(c, slot) == {k \in DOMAIN s : s[k].call = c /\ s[k].slot = slot}
        IN  s # <<>> =>
               \A r \in at("ioctl", "0") :
                  /\ \E k \in at("setsid", "") : k < r
                  /\ \A slot \in {"0", "1", "2"} :
                        /\ \E k \in at("close", slot) : k < r
                        /\ \E k \in at("dup2", slot) : k < r

\* C15: at both call sites the takeover is setsid, close of 0, 1 and 2,
\* duplication onto standard input, the set-controlling-tty request on the
\* new standard input, then duplication onto standard output and standard
\* error: the request comes after setsid and after the duplication onto
\* standard input, and before the other two duplications.
C15_TtyRequestAfterStdinDuplication ==
    \A i \in DOMAIN launched :
        LET s == launched[i].takeover
        IN  launched[i].via = "spawn" =>
               /\ Len(s) = 8
               /\ <<s[1].call, s[2].call, s[3].call, s[4].call, s[5].call,
                    s[6].call, s[7].call, s[8].call>>
                  = <<"setsid", "close", "close", "close", "dup2", "ioctl",
                      "dup2", "dup2">>
               /\ <<s[2].slot, s[3].slot, s[4].slot>> = <<"0", "1", "2">>
               /\ <<s[5].slot, s[6].slot, s[7].slot, s[8].slot>>
                  = <<"0", "0", "1", "2">>
               /\ s[6].from = "TIOCSCTTY"
               /\ <<s[5].from, s[7].from, s[8].from>>
                  = IF launched[i].cmd = "bash"
                    THEN <<"tty_fd", "tty_fd", "tty_fd">>
                    ELSE <<"tty_in", "tty_out", "tty_err">>

\* C15 happens: the script was spawned on the serial ports after the
\* takeover of its pre_exec closure
C15_Witness ==
    /\ launched # <<>>
    /\ launched[1].cmd = "/bin/sh"
    /\ launched[1].takeover[5] = Call("dup2", "tty_in", "0")
    /\ pc = "channel_ret"

\* C16: the environment is stripped at most once, and once it has been
\* stripped no thread is still running that was spawned for service
\* bring-up, and the vsock proxy thread has already read virtme_vsockmount.
C16_StripAfterEveryReader ==
    /\ clears <= 1
    /\ clears > 0
          => /\ \A i \in DOMAIN handles : task[handles[i]] = "done"
             /\ task["socat"] # "vsockmount"

\* C17: the mount phase of main() is over before any thread exists, and no
\* two threads are ever both at a mount: while the thread of run_misc_services
\* has mounts ahead of it (the pass-through mounts, the bind mounts of
\* override_system_files), the vsock proxy thread is not at its 9p mount.
C17_NoConcurrentMounts ==
    LET mount_phase == {"check_init_pid", "configure_environment",
                        "configure_hostname", "mount_kernel_filesystems",
                        "mount_cgroupfs", "mount_cgroupfs_legacy",
                        "configure_limits", "mount_virtme_overlays",
                        "mount_virtme_overlays_retry",
                        "mount_sys_filesystems", "mount_kernel_modules",
                        "run_systemd_tmpfiles"}
        socat_at_mount == /\ task["socat"] = "vsockmount"
                          /\ EnvHas(env, "virtme_vsockmount")
        misc_at_mount == task["misc"] \in {"symlink_fds", "initmounts", "system_files"}
    IN  /\ pc \in mount_phase => \A t \in TaskIds : task[t] = "unspawned"
        /\ ~(socat_at_mount /\ misc_at_mount)

\* C18: a failure of a setup subprocess is logged or ignored and execution
\* continues; for stty: once configure_terminal has redirected the output to
\* the console it opened, the step never ends the process, whatever becomes
\* of the stty it runs for virtme_stty_con.
C18_SetupFailureContinues ==
    [][ (pc = "configure_terminal" /\ consdev # None /\ consdev[1] \in opened')
            => /\ pc' = "init_xdg_runtime_dir"
               /\ exitStatus' = None ]_vars

-----------------------------------------------------------------------------
(* SpecPolling: the boot with the main thread always scheduled while it is
   in the loop of get_network_devices; the kernel is under no obligation to
   register the virtio_net driver. *)

SpecPolling ==
    Init /\ [][Next]_vars /\ WF_vars(GetNetworkDevices) /\ WF_vars(SleepNetworkDevices)

\* C19: with virtme.dhcp, waiting for the virtio network devices is a bounded
\* retry: get_network_devices returns even if the virtio_net directory never
\* appears, so the main thread always leaves its loop.
C19_NetworkBringUpTerminates ==
    (pc \in {"get_network_devices", "get_network_devices_sleep"})
        ~> (pc \notin {"get_network_devices", "get_network_devices_sleep"})

\* C20: each overlay request is mounted at most twice: the first attempt
\* carries xino=off; a second attempt follows only when the first failed
\* with an option-parsing error, on the same source and target with the
\* same lowerdir, upperdir and workdir and no xino option; whatever the
\* second attempt gives, the loop goes on to the next request.
C20_OverlayRetriedOnceWithoutXino ==
    [][LET n == Len(mountLog)
           reqs == EnvWithPrefix(env, "virtme_rw_overlay")
           dirs(k, p) == "lowerdir=" \o p \o ",upperdir=/run/tmp/" \o k
                            \o "/upper,workdir=/run/tmp/" \o k \o "/work"
           attempts(k) == {i \in DOMAIN mountLog' :
                              /\ mountLog'[i].by = "mount_virtme_overlays"
                              /\ mountLog'[i].source = k}
       IN  /\ (pc = "mount_virtme_overlays" /\ loopi <= Len(reqs))
                 => /\ Len(mountLog') = n + 1
                    /\ mountLog'[n + 1].source = reqs[loopi][1]
                    /\ mountLog'[n + 1].target = reqs[loopi][2]
                    /\ mountLog'[n + 1].fs_type = "overlay"
                    /\ mountLog'[n + 1].fsdata
                          = "xino=off," \o dirs(reqs[loopi][1], reqs[loopi][2])
                    /\ (pc' = "mount_virtme_overlays_retry")
                          = (lastMount'.res = "EINVAL")
                    /\ IF pc' = "mount_virtme_overlays_retry"
                       THEN loopi' = loopi
                       ELSE pc' = pc /\ loopi' = loopi + 1
                    /\ Cardinality(attempts(reqs[loopi][1])) = 1
           /\ pc = "mount_virtme_overlays_retry"
                 => /\ lastMount.res = "EINVAL"
                    /\ Len(mountLog') = n + 1
                    /\ mountLog'[n + 1].by = mountLog[n].by
                    /\ mountLog'[n + 1].source = mountLog[n].source
                    /\ mountLog'[n + 1].target = mountLog[n].target
                    /\ mountLog'[n + 1].fs_type = "overlay"
                    /\ mountLog'[n + 1].fsdata
                          = dirs(reqs[loopi][1], reqs[loopi][2])
                    /\ mountLog[n].fsdata = "xino=off," \o mountLog'[n + 1].fsdata
                    /\ Cardinality(attempts(reqs[loopi][1])) = 2
                    /\ pc' = "mount_virtme_overlays"
                    /\ loopi' = loopi + 1
                    /\ exitStatus' = None
      ]_vars

\* C20 happens: the first of two overlay requests was refused for its
\* options and attempted again without xino, the second request was then
\* mounted at the first attempt
C20_Witness ==
    /\ pc = "mount_sys_filesystems"
    /\ loopi = 1
    /\ Len(OverlayRequests) = 2
    /\ Len(mountLog) >= 3
    /\ LET n == Len(mountLog)
       IN  /\ mountLog[n - 2].source = OverlayRequests[1][1]
           /\ mountLog[n - 1].source = OverlayRequests[1][1]
           /\ mountLog[n - 1].fsdata
                 = "lowerdir=/var,upperdir=/run/tmp/virtme_rw_overlay1/upper,workdir=/run/tmp/virtme_rw_overlay1/work"
           /\ mountLog[n].source = OverlayRequests[2][1]
           /\ lastMount = [target |-> OverlayRequests[2][2], res |-> "ok",
                           logged |-> FALSE]

\* C21: while the kernel table is applied, /run is skipped (a log line, no
\* mount attempt) exactly when the guest-tools directory lies under /run;
\* when it lies elsewhere or cannot be derived, /run is mounted like any
\* other entry.
C21_RunSkippedExactlyWhenToolsUnderRun ==
    LET tools == get_guest_tools_dir
        under_run == /\ tools # None
                     /\ tools[1] = "/run" \/ StartsWith(tools[1], "/run/")
        skipped == \E i \in DOMAIN klog :
                      klog[i] = <<"/run previously mounted, skipping">>
        mounted == \E i \in DOMAIN mountLog :
                      /\ mountLog[i].by = "mount_kernel_filesystems"
                      /\ mountLog[i].target = "/run"
    IN  /\ skipped => under_run
        /\ (mounted /\ procMounted) => ~under_run
        /\ ~(skipped /\ mounted)

\* C23: poweroff flushes the filesystems before it requests the power-off
\* and never the reverse; a failed request is logged and ends the process
\* with a non-zero status; the request is made once: after it nothing
\* changes any more.
C23_SyncThenRequestOnce ==
    [][/\ power # "requested"
       /\ power' # power
             => <<power, power'>> \in {<<"on", "synced">>, <<"synced", "requested">>}
       /\ power' # power /\ power' = "synced" => pc = "poweroff" /\ pc' = "reboot"
       /\ pc' = pc => power' = power
       /\ (pc = "reboot" /\ pc' # pc)
             => /\ power = "synced"
                /\ power' = "requested"
                /\ \/ pc' = "off" /\ exitStatus' = Some(0) /\ klog' = klog
                   \/ /\ pc' = "exited"
                      /\ exitStatus' = Some(1)
                      /\ klog' = Append(klog, <<"error powering off">>)
      ]_vars

\* C23 happens: the power-off request failed after the flush, the failure
\* was logged and the process ended with status 1
C23_Witness ==
    /\ pc = "exited"
    /\ power = "requested"
    /\ exitStatus = Some(1)
    /\ klog # <<>>
    /\ klog[Len(klog)] = <<"error powering off">>

\* C22: without a console (no virtme_console, no active line in
\* /proc/consoles) the condition is logged and the process image is replaced
\* by an interactive shell with no terminal takeover: no console is opened,
\* no setsid/dup2/TIOCSCTTY is issued, no script is extracted, written or
\* run, no serial port is touched; and this is the only way session setup
\* ends without going on to the session.
C22_DegradedShellOnlyWithoutConsole ==
    [][LET setup == {"setup_user_session", "configure_terminal",
                     "init_xdg_runtime_dir", "setup_root_home",
                     "run_user_session"}
           degraded == pc = "setup_user_session" /\ pc' \in {"replaced", "poweroff"}
       IN  /\ degraded
                 => /\ ~EnvHas(env, "virtme_console")
                    /\ consdev' = None
                    /\ Len(klog') > Len(klog)
                    /\ klog'[Len(klog) + 1] = <<"failed to determine console">>
                    /\ opened' = {}
                    /\ scriptFile' = NoFile
                    /\ retFile' = Untouched
                    /\ clears' = 0
                    /\ pc' = "replaced"
                          => /\ Len(launched') = 1
                             /\ launched'[1].cmd = "bash"
                             /\ launched'[1].args = <<"-l">>
                             /\ launched'[1].via = "exec"
                             /\ launched'[1].takeover = <<>>
                    /\ pc' = "poweroff" => launched' = <<>>
           /\ (pc \in setup /\ pc' \in {"replaced", "panicked", "exited"})
                 => degraded /\ pc' = "replaced"
      ]_vars

\* C24: with virtme_console set the console is /dev/<its value>, whatever
\* /proc/consoles holds; otherwise it is /dev/<first space-delimited token>
\* of the first line of /proc/consoles whose character at offset 27 is 'C';
\* if no line qualifies or the file cannot be opened there is no console.
C24_ConsoleSelection ==
    xout.done =>
        LET e == xin.env
            explicit == {i \in DOMAIN e : e[i][1] = "virtme_console"}
            qualifies(l) == Len(l) > 27 /\ SubSeq(l, 28, 28) = "C"
            token_of(tok, l) ==
                /\ \A k \in 1..Len(tok) : SubSeq(tok, k, k) # " "
                /\ \/ l = tok
                   \/ /\ Len(l) > Len(tok)
                      /\ SubSeq(l, 1, Len(tok) + 1) = tok \o " "
        IN  IF explicit # {}
            THEN \E i \in explicit : xout.result = Some("/dev/" \o e[i][2])
            ELSE IF xin.file = None
            THEN xout.result = None
            ELSE LET lines == xin.file[1]
                 IN  IF \A i \in DOMAIN lines : ~qualifies(lines[i])
                     THEN xout.result = None
                     ELSE \E i \in DOMAIN lines :
                             /\ qualifies(lines[i])
                             /\ \A j \in 1..(i - 1) : ~qualifies(lines[j])
                             /\ xout.result # None
                             /\ Len(xout.result[1]) >= 5
                             /\ SubSeq(xout.result[1], 1, 5) = "/dev/"
                             /\ token_of(SubSeq(xout.result[1], 6,
                                                Len(xout.result[1])), lines[i])

\* C24 happens: without virtme_console, the second line of /proc/consoles is
\* the first active one and gives the console
C24_Witness ==
    /\ xout.done
    /\ xin.env = Env0
    /\ xin.file = Some(<< "tty0                 -WU (E  p  )    4:1",
                          "hvc0                 -W- ( C p  )  229:0" >>)
    /\ xout.result = Some("/dev/hvc0")

\* C25: setup_network always spawns the loopback task; it polls for devices
\* and spawns DHCP clients only with virtme.dhcp on the command line, one
\* client per discovered device; without the parameter there is no polling
\* and no DHCP client.
C25_LoopbackAlwaysDhcpOnlyOnRequest ==
    \A requested \in {Contains(cmdline, dhcp_flag)} :
    LET before == {"check_init_pid", "configure_environment", "configure_hostname",
                   "mount_kernel_filesystems", "mount_cgroupfs",
                   "mount_cgroupfs_legacy", "configure_limits",
                   "mount_virtme_overlays", "mount_virtme_overlays_retry",
                   "mount_sys_filesystems", "mount_kernel_modules",
                   "run_systemd_tmpfiles", "setup_socat_console", "run_udevd",
                   "run_misc_services", "setup_network"}
        polling == {"get_network_devices", "get_network_devices_sleep"}
        clients == {k \in 1..MaxNetDevs : task[DhcpTask(k)] # "unspawned"}
        held(t) == Cardinality({i \in DOMAIN handles : handles[i] = t})
    IN  /\ pc \in before
              => /\ task["lo"] = "unspawned" /\ clients = {}
                 /\ virtio_net = "unread" /\ netdevs = <<>>
        /\ pc \in polling
              => /\ requested
                 /\ task["lo"] # "unspawned" /\ clients = {}
                 /\ virtio_net # "unread"
        /\ (pc \notin before \cup polling \cup {"panicked", "exited"})
              => /\ task["lo"] # "unspawned" /\ held("lo") = 1
                 /\ virtio_net = IF requested THEN "present" ELSE "unread"
        /\ (task["lo"] # "unspawned" /\ pc \notin polling \cup {"panicked"})
              => /\ clients = 1..Len(netdevs)
                 /\ \A k \in 1..MaxNetDevs :
                       held(DhcpTask(k)) = IF k \in clients THEN 1 ELSE 0
                 /\ \A k \in 1..Len(netdevs) :
                       /\ netdevs[k] = "eth" \o ToString(k - 1)
                       /\ \E i \in DOMAIN klog :
                             klog[i] = <<"setting up network device", netdevs[k]>>
        /\ ~requested
              => /\ clients = {} /\ netdevs = <<>>
                 /\ virtio_net = "unread"
                 /\ pc \notin polling
        /\ task["lo"] = "unspawned" => clients = {} /\ netdevs = <<>>

\* C25 happens: with virtme.dhcp two devices were discovered and each has
\* its DHCP client, next to the loopback task
C25_Witness ==
    /\ pc = "join"
    /\ Contains(cmdline, dhcp_flag)
    /\ Len(netdevs) = 2
    /\ task["lo"] = "running"
    /\ task[DhcpTask(1)] = "running"
    /\ task[DhcpTask(2)] = "done"
    /\ "misc" \in {handles[i] : i \in DOMAIN handles}

\* C26: after the remap loop of run_user_script every destination whose
\* source port exists is a symlink to that port, whatever lay there before
\* (nothing, a file, a live or a dangling symlink); a destination whose
\* source port does not exist is as it was.
C26_RemapReplacesWhateverWasThere ==
    [][pc = "remap" =>
          \A pair \in { <<"virtme.ret", "/dev/virtme.ret">>,
                        <<"virtme.dev_stdin", "/dev/stdin">>,
                        <<"virtme.dev_stdout", "/dev/stdout">>,
                        <<"virtme.dev_stderr", "/dev/stderr">> } :
              IF pair[1] \in ports
              THEN dev'[pair[2]] = [kind |-> "link",
                                    target |-> "/dev/virtio-ports/" \o pair[1]]
              ELSE \/ dev'[pair[2]] = dev[pair[2]]
                   \/ pair[2] = "/dev/virtme.ret" /\ dev'[pair[2]] \in RetPriors
      ]_vars

\* C27: every mount attempt of an overlay request, the retry included,
\* comes after the creation of /run/tmp/ and then of the request's own
\* base, upper and work directories under /run/tmp/<key>; no directory of a
\* request is created by the processing of another request, and the
\* directories of two requests are distinct.
C27_ScratchDirsBeforeOverlayMounts ==
    LET reqs == EnvWithPrefix(env, "virtme_rw_overlay")
        keys == {reqs[r][1] : r \in DOMAIN reqs}
        base(k) == "/run/tmp/" \o k
        own(k) == {base(k), base(k) \o "/upper", base(k) \o "/work"}
        made(path, n) == {j \in DOMAIN mkdirs :
                             mkdirs[j].path = path /\ mkdirs[j].at < n}
    IN  /\ \A i \in DOMAIN mountLog :
              mountLog[i].by = "mount_virtme_overlays"
                 => LET k == mountLog[i].source
                    IN  \E a \in made("/run/tmp/", i) :
                        \E b \in made(base(k), i) :
                        \E c \in made(base(k) \o "/upper", i) :
                        \E d \in made(base(k) \o "/work", i) :
                           a < b /\ b < c /\ c < d
        /\ \A k1 \in keys, k2 \in keys : k1 # k2 => own(k1) \cap own(k2) = {}
        /\ \A k \in keys : \A path \in own(k) :
              Cardinality({j \in DOMAIN mkdirs : mkdirs[j].path = path}) <= 1
        /\ \A j \in DOMAIN mkdirs :
              (\E k \in keys : mkdirs[j].path \in own(k))
                 => \A i \in DOMAIN mountLog :
                       (mountLog[i].by = "mount_virtme_overlays" /\ i <= mkdirs[j].at)
                          => mkdirs[j].path \notin own(mountLog[i].source)

\* C27 happens: two overlay requests were processed, the first one mounted
\* at its second attempt, and each has its three directories
C27_Witness ==
    /\ pc = "mount_sys_filesystems"
    /\ loopi = 1
    /\ Len(OverlayRequests) = 2
    /\ Cardinality({i \in DOMAIN mountLog :
                       mountLog[i].by = "mount_virtme_overlays"}) = 3
    /\ Cardinality({j \in DOMAIN mkdirs :
                       StartsWith(mkdirs[j].path, "/run/tmp/virtme_rw_overlay")}) = 6
    /\ mkdirs[Len(mkdirs)].path = "/run/tmp/virtme_rw_overlay0/work"

\* C28: on every execution the mounts follow their dependencies: /proc has
\* been attempted when the /run guard looks up the guest tools and before
\* every step that follows the kernel table (the reads of /proc/cmdline, the
\* writes under /proc/sys, the threads); the decision about /run (a mount
\* attempt or the skip) is taken before any directory is created under /run;
\* /sys is attempted before any mount or directory under /sys, and /dev
\* before any mount or directory under /dev.
C28_MountsFollowDependencies ==
    [][LET attempted(target) ==
               \E i \in DOMAIN mountLog : mountLog[i].target = target
           skipped(log) ==
               \E i \in DOMAIN log : log[i] = <<"/run previously mounted, skipping">>
           new == {i \in DOMAIN mountLog' : i > Len(mountLog)}
           newdirs == {j \in DOMAIN mkdirs' : j > Len(mkdirs)}
           under(path, d) == StartsWith(path, d \o "/")
           needs(d) ==
               /\ \A i \in new :
                     under(mountLog'[i].target, d) => attempted(d)
               /\ \A j \in newdirs :
                     under(mkdirs'[j].path, d) => attempted(d)
       IN  /\ (\/ \E i \in new : mountLog'[i].target = "/run"
               \/ skipped(klog') /\ ~skipped(klog))
                 => attempted("/proc")
           /\ pc \notin {"check_init_pid", "configure_environment",
                         "configure_hostname", "mount_kernel_filesystems"}
                 => attempted("/proc")
           /\ \A j \in newdirs :
                 under(mkdirs'[j].path, "/run")
                    => attempted("/run") \/ skipped(klog)
           /\ needs("/sys")
           /\ needs("/dev")
      ]_vars

\* C28 happens: the kernel table was applied with /run mounted, the legacy
\* cgroup layout was mounted and the system table has begun, with
\* directories created under /run, /sys and /dev
C28_Witness ==
    /\ pc = "mount_sys_filesystems"
    /\ loopi = 3
    /\ \E i \in DOMAIN mountLog : mountLog[i].target = "/run"
    /\ \E i \in DOMAIN mountLog : mountLog[i].target = "/sys/fs/cgroup/pids"
    /\ mountLog[Len(mountLog)].target = "/dev/shm"
    /\ \E j \in DOMAIN mkdirs : mkdirs[j].path = "/run/tmp/"
    /\ \E j \in DOMAIN mkdirs : mkdirs[j].path = "/sys/fs/cgroup/pids"
    /\ \E j \in DOMAIN mkdirs : mkdirs[j].path = "/run/dbus"
    /\ \E j \in DOMAIN mkdirs : mkdirs[j].path = "/dev/pts"

\* C29: a command line whose embedded command is malformed (the marker
\* with no closing backtick after it, a payload that is not base64, a
\* payload that decodes to bytes that are not UTF-8) is treated like one
\* with no command: setup_user_script does not panic and goes on to the
\* choice of the session, no script file is ever written, the serial ports
\* are never looked at, opened or linked to, no exit code is written, and
\* the only program started for the session is the shell.
C29_MalformedCommandIsNoCommand ==
    [][(cmdline \in {CmdUnclosed, CmdLegacyBadExec, CmdNotUtf8})
       => /\ (pc = "setup_user_script" /\ pc' # pc)
                => pc' = "select_session" /\ exitStatus' = None
          /\ (pc = "select_session" /\ pc' # pc /\ ~EnvHas(env, "virtme_graphics"))
                => pc' = "run_user_shell"
          /\ pc' \notin {"run_user_script", "remap", "open_ports",
                         "run_script", "channel_ret"}
          /\ scriptFile' = NoFile
          /\ ports' = {}
          /\ opened' \cap {PortPath(p) : p \in AllPorts} = {}
          /\ \A d \in Dsts : dev'[d].target \notin {PortPath(p) : p \in AllPorts}
          /\ retFile' = Untouched
          /\ \A i \in DOMAIN launched' : launched'[i].cmd = "bash"
      ]_vars

\* C29 happens: a boot whose payload decodes to a byte that is not UTF-8
\* went through setup_user_script and reached the interactive shell with no
\* script file
C29_Witness ==
    /\ pc = "run_user_shell"
    /\ cmdline = CmdNotUtf8
    /\ scriptFile = NoFile
    /\ ports = {}

\* C30: when virtme_graphics is set, setup_user_script writes the embedded
\* script and goes straight to the choice of the session: run_user_script
\* is never entered, no serial port is looked at, opened or linked to, and no
\* exit code is written; the session chosen is run_user_gui, the only
\* program ever started is the bash that runs xinit on /run/tmp/.xinitrc, and
\* when run_user_gui returns the next step of main is poweroff. Without the
\* flag run_user_gui is never entered and xinit is never started.
C30_GraphicsKeepsScriptOffThePorts ==
    [][LET xinit(proc) ==
               /\ proc.cmd = "bash"
               /\ proc.args \in
                     {<<"-l", "-c", "xinit /run/tmp/.xinitrc">>,
                      <<"-l", "-c", "su alice -c 'xinit /run/tmp/.xinitrc'">>}
       IN  IF EnvHas(env, "virtme_graphics")
           THEN /\ pc' \notin {"run_user_script", "remap", "open_ports",
                               "run_script", "channel_ret", "run_user_shell"}
                /\ ports' = {}
                /\ opened' \cap {PortPath(p) : p \in AllPorts} = {}
                /\ \A d \in Dsts :
                      dev'[d].target \notin {PortPath(p) : p \in AllPorts}
                /\ retFile' = Untouched
                /\ (pc = "setup_user_script" /\ pc' # pc /\ cmdline = CmdExample)
                      => \/ pc' = "select_session" /\ scriptFile' = Some(Bytes("Hello") \o <<10>>)
                         \/ pc' = "panicked" /\ scriptFile' = NoFile
                /\ (pc = "select_session" /\ pc' # pc) => pc' = "run_user_gui"
                /\ (pc = "run_user_gui" /\ pc' # pc)
                      => \/ /\ pc' = "poweroff"
                            /\ \/ launched' = launched
                               \/ /\ Len(launched') = 1
                                  /\ xinit(launched'[1])
                                  /\ launched'[1].via = "spawn"
                         \/ pc' = "panicked" /\ launched' = launched
                /\ \A i \in DOMAIN launched' : xinit(launched'[i])
           ELSE /\ pc' # "run_user_gui"
                /\ \A i \in DOMAIN launched' : ~xinit(launched'[i])
      ]_vars

\* C30 happens: a boot with virtme_graphics and an embedded script wrote the
\* script, started xinit and came back to poweroff with every port untouched
C30_Witness ==
    /\ pc = "poweroff"
    /\ EnvHas(env, "virtme_graphics")
    /\ cmdline = CmdExample
    /\ scriptFile = Some(Bytes("Hello") \o <<10>>)
    /\ Len(launched) = 1
    /\ launched[1].args[3] = "su alice -c 'xinit /run/tmp/.xinitrc'"
    /\ ports = {}
    /\ retFile = Untouched

====
